---- MODULE Spec2Model ----
(***************************************************************************)
(* A model of the DAG execution kernel of dozer-core:                      *)
(*   - dag.rs          the DAG (nodes, ports, edges),                      *)
(*   - mt_executor.rs  MultiThreadedDagExecutor: one worker thread per     *)
(*                     node, one bounded crossbeam channel per edge.       *)
(* Operators (Source, Processor, Sink) are plugins: every call into them   *)
(* is a nondeterministic choice over the results their contract allows.    *)
(***************************************************************************)
EXTENDS Integers, Sequences, FiniteSets, TLC

\* ------------------------------------------------------------------ bounds
\* Largest number of data ops one source emits before it returns.
MaxOps == 2
\* Largest channel_buf_sz the executor is constructed with.
MaxBufSz == 2
\* Largest number of edges a Dag under construction is taken to.
MaxEdges == 2

\* The records put into the environments before the checkpoints are analysed.
MaxWrites == 3

\* ------------------------------------------------------- program constants
DEFAULT_PORT_HANDLE == 65535

\* --------------------------------------------------------------- utilities
EmptyMap == << >>

Put(m, k, v) == [x \in (DOMAIN m) \cup {k} |-> IF x = k THEN v ELSE m[x]]

Range(s) == {s[i] : i \in DOMAIN s}

IsPrefix(s, t) == Len(s) <= Len(t) /\ \A i \in 1..Len(s) : s[i] = t[i]

RECURSIVE Concat(_)
Concat(ss) == IF ss = << >> THEN << >> ELSE Head(ss) \o Concat(Tail(ss))

RECURSIVE SortedSeq(_)
SortedSeq(S) ==
    IF S = {} THEN << >>
    ELSE LET m == CHOOSE x \in S : \A y \in S : x <= y
         IN  <<m>> \o SortedSeq(S \ {m})

\* ------------------------------------------------------ ExecutorOperation
SchemaUpdate(new) == [type |-> "SchemaUpdate", new |-> new]

Terminate == [type |-> "Terminate"]

Insert(seq, new) == [type |-> "Insert", seq |-> seq, new |-> new]

Delete(seq, old) == [type |-> "Delete", seq |-> seq, old |-> old]

Update(seq, old, new) == [type |-> "Update", seq |-> seq, old |-> old, new |-> new]

\* The data operations a source may emit (dozer_types::types::Operation).
InsertR1 == [type |-> "Insert", new |-> "r1"]

Operations ==
    { InsertR1,
      [type |-> "Delete", old |-> "r1"],
      [type |-> "Update", old |-> "r1", new |-> "r2"] }

IsDataOp(op) == op.type \in {"Insert", "Delete", "Update"}

\* Worker results: Ok(()) or an ExecutionError; index is the receiver index
\* carried by SinkReceiverError / ProcessorReceiverError, -1 otherwise.
Res(kind) == [kind |-> kind, index |-> -1]

\* An error that names a node: MissingNodeInput(handle), MissingNodeOutput(handle).
ResOf(kind, handle) == [kind |-> kind, index |-> -1, handle |-> handle]

ResAt(kind, index) == [kind |-> kind, index |-> index]

Ok == Res("Ok")

NoExit == Res("continue")

\* The worker still has to commit the transaction of the op it is processing.
Commit == Res("commit")

NoResult == Res("none")

map_to_op_delete_as_insert(op) ==
    CASE op.type = "Delete" -> [ok |-> TRUE, seq |-> op.seq, op |-> [type |-> "Insert", new |-> op.old]]
      [] op.type = "Insert" -> [ok |-> TRUE, seq |-> op.seq, op |-> [type |-> "Insert", new |-> op.new]]
      [] op.type = "Update" -> [ok |-> TRUE, seq |-> op.seq,
                                op |-> [type |-> "Update", old |-> op.old, new |-> op.new]]
      [] OTHER -> [ok |-> FALSE, err |-> Res("InvalidOperation")]

\* Update falls into the catch-all arm (not what the code does).
map_to_op_without_update(op) ==
    CASE op.type = "Delete" -> [ok |-> TRUE, seq |-> op.seq, op |-> [type |-> "Delete", old |-> op.old]]
      [] op.type = "Insert" -> [ok |-> TRUE, seq |-> op.seq, op |-> [type |-> "Insert", new |-> op.new]]
      [] OTHER -> [ok |-> FALSE, err |-> Res("InvalidOperation")]

map_to_op(op) ==
    CASE op.type = "Delete" -> [ok |-> TRUE, seq |-> op.seq, op |-> [type |-> "Delete", old |-> op.old]]
      [] op.type = "Insert" -> [ok |-> TRUE, seq |-> op.seq, op |-> [type |-> "Insert", new |-> op.new]]
      [] op.type = "Update" -> [ok |-> TRUE, seq |-> op.seq,
                                op |-> [type |-> "Update", old |-> op.old, new |-> op.new]]
      [] OTHER -> [ok |-> FALSE, err |-> Res("InvalidOperation")]

\* --------------------------------------------------------------- dag.rs
Endpoint(node, port) == [node |-> node, port |-> port]

Edge(from, to) == [from |-> from, to |-> to]

\* ------------------------------------------------------------------ dag.rs
\* NodeType: the kind of the node and the ports its factory declares.
SourceNode == [t |-> "Source", output_ports |-> <<1>>]

SinkNode == [t |-> "Sink", input_ports |-> <<1>>]

ProcessorNode == [t |-> "Processor", input_ports |-> <<1>>, output_ports |-> <<2>>]

NodeTypes == {SourceNode, SinkNode, ProcessorNode}

\* An anyhow! error: the format string and its argument.
anyhow(fmt, arg) == [kind |-> "anyhow", fmt |-> fmt, arg |-> arg]

\* The () a function without a result returns.
Unit == [kind |-> "()"]

\* Dag::new
new_dag == [nodes |-> EmptyMap, edges |-> << >>]

\* HashMap::insert keeps the entry already there (not what the code does).
add_node_if_absent(self, node_builder, handle) ==
    IF handle \in DOMAIN self.nodes THEN self
    ELSE [self EXCEPT !.nodes = Put(@, handle, node_builder)]

\* Dag::add_node
add_node(self, node_builder, handle) ==
    [self EXCEPT !.nodes = Put(@, handle, node_builder)]

\* get_ports that answers a sink's Output and a source's Input query with the
\* ports of the other direction (not what the code does).
get_ports_any_direction(n, d) ==
    [ok |-> TRUE,
     ports |-> IF n.t = "Sink" THEN n.input_ports
               ELSE IF n.t = "Source" THEN n.output_ports
               ELSE IF d = "Output" THEN n.output_ports ELSE n.input_ports]

\* Dag::get_ports
get_ports(n, d) ==
    CASE n.t = "Processor" ->
           [ok |-> TRUE, ports |-> IF d = "Output" THEN n.output_ports ELSE n.input_ports]
      [] n.t = "Sink" ->
           IF d = "Output"
           THEN [ok |-> FALSE, err |-> anyhow("Invalid node type", "")]
           ELSE [ok |-> TRUE, ports |-> n.input_ports]
      [] n.t = "Source" ->
           IF d = "Output"
           THEN [ok |-> TRUE, ports |-> n.output_ports]
           ELSE [ok |-> FALSE, err |-> anyhow("Invalid node type", "")]

\* A contains that finds every port (not what the code does).
contains_any(ports, port) == TRUE

\* Vec::contains
contains(ports, port) == \E k \in 1..Len(ports) : ports[k] = port

\* Dag::connect: the Dag afterwards and the Result returned.
connect(self, from, to) ==
    IF from.node \notin DOMAIN self.nodes
    THEN [dag |-> self,
          result |-> anyhow("Unable to find source node with id = {}", from.node)]
    ELSE IF to.node \notin DOMAIN self.nodes
    THEN [dag |-> self,
          result |-> anyhow("Unable to find source node with id = {}", to.node)]
    ELSE LET src_output_ports == get_ports(self.nodes[from.node], "Output")
             dst_input_ports == get_ports(self.nodes[to.node], "Input")
         IN  IF ~src_output_ports.ok
             THEN [dag |-> self, result |-> src_output_ports.err]
             ELSE IF ~contains(src_output_ports.ports, from.port)
             THEN [dag |-> self, result |-> anyhow("Unable to connect port", "")]
             ELSE IF ~dst_input_ports.ok
             THEN [dag |-> self, result |-> dst_input_ports.err]
             ELSE IF ~contains(dst_input_ports.ports, to.port)
             THEN [dag |-> self, result |-> anyhow("Unable to connect port", "")]
             ELSE [dag |-> [self EXCEPT !.edges = Append(@, Edge(from, to))],
                   result |-> Ok]

\* A rewrite that leaves the handle as it is (not what the code does).
namespaced_bare(namespace, handle) == handle

\* format!("{}/{}", namespace, handle)
namespaced(namespace, handle) == namespace \o "/" \o handle

\* The first loop of merge: every node of other inserted under its rewritten
\* handle, in the iteration order of other.nodes.
RECURSIVE merge_nodes(_, _, _, _)
merge_nodes(nodes, namespace, other_nodes, todo) ==
    IF todo = {} THEN nodes
    ELSE LET h == CHOOSE x \in todo : TRUE
         IN  merge_nodes(Put(nodes, namespaced(namespace, h), other_nodes[h]),
                         namespace, other_nodes, todo \ {h})

\* Dag::merge
merge(self, namespace, other) ==
    [nodes |-> merge_nodes(self.nodes, namespace, other.nodes, DOMAIN other.nodes),
     edges |-> self.edges \o
               [k \in 1..Len(other.edges) |->
                   Edge(Endpoint(namespaced(namespace, other.edges[k].from.node),
                                 other.edges[k].from.port),
                        Endpoint(namespaced(namespace, other.edges[k].to.node),
                                 other.edges[k].to.port))]]

\* The handles, ports and namespaces the calls on a Dag draw from.
NodeHandles == {"a", "n/a"}

PortHandles == {1, 2}

Namespaces == {"n"}

\* The Dags handed to merge: a source connected to a sink, and a lone sink.
OtherPipe ==
    connect(add_node(add_node(new_dag, SourceNode, "a"), SinkNode, "b"),
            Endpoint("a", 1), Endpoint("b", 1)).dag

OtherSink == add_node(new_dag, SinkNode, "a")

OtherDags == {OtherPipe, OtherSink}

\* Every endpoint a connect call may name, declared or not.
Endpoints ==
    {Endpoint(h, p) :
        h \in NodeHandles \cup {namespaced(ns, o) : ns \in Namespaces, o \in {"a", "b"}},
        p \in PortHandles}

\* Source -> Processor -> Sink, one port each.
LinearDag ==
    [name         |-> "linear",
     order        |-> <<"S1", "P", "K1">>,
     nodes        |-> ("S1" :> "Source" @@ "P" :> "Processor" @@ "K1" :> "Sink"),
     input_ports  |-> ("S1" :> << >> @@ "P" :> <<DEFAULT_PORT_HANDLE>>
                        @@ "K1" :> <<DEFAULT_PORT_HANDLE>>),
     output_ports |-> ("S1" :> <<DEFAULT_PORT_HANDLE>> @@ "P" :> <<DEFAULT_PORT_HANDLE>>
                        @@ "K1" :> << >>),
     source_ops   |-> ("S1" :> Operations),
     source_len   |-> ("S1" :> MaxOps),
     stateful     |-> {},
     buf_sizes    |-> 1..MaxBufSz,
     edges        |-> << Edge(Endpoint("S1", DEFAULT_PORT_HANDLE), Endpoint("P", DEFAULT_PORT_HANDLE)),
                         Edge(Endpoint("P", DEFAULT_PORT_HANDLE), Endpoint("K1", DEFAULT_PORT_HANDLE)) >>]

\* One source output port with an edge to each of two sinks.
FanOutDag ==
    [name         |-> "fanout",
     order        |-> <<"S1", "K1", "K2">>,
     nodes        |-> ("S1" :> "Source" @@ "K1" :> "Sink" @@ "K2" :> "Sink"),
     input_ports  |-> ("S1" :> << >> @@ "K1" :> <<DEFAULT_PORT_HANDLE>>
                        @@ "K2" :> <<DEFAULT_PORT_HANDLE>>),
     output_ports |-> ("S1" :> <<DEFAULT_PORT_HANDLE>> @@ "K1" :> << >> @@ "K2" :> << >>),
     source_ops   |-> ("S1" :> Operations),
     source_len   |-> ("S1" :> MaxOps),
     stateful     |-> {},
     buf_sizes    |-> 1..MaxBufSz,
     edges        |-> << Edge(Endpoint("S1", DEFAULT_PORT_HANDLE), Endpoint("K1", DEFAULT_PORT_HANDLE)),
                         Edge(Endpoint("S1", DEFAULT_PORT_HANDLE), Endpoint("K2", DEFAULT_PORT_HANDLE)) >>]

\* Two sources feeding the two input ports of one processor, then a sink.
\* source_ops and source_len are the data ops each source draws from and the
\* number it emits at most; buf_sizes are the values of channel_buf_sz.
FanInDag ==
    [name         |-> "fanin",
     order        |-> <<"S1", "S2", "P", "K1">>,
     nodes        |-> ("S1" :> "Source" @@ "S2" :> "Source" @@ "P" :> "Processor"
                        @@ "K1" :> "Sink"),
     input_ports  |-> ("S1" :> << >> @@ "S2" :> << >> @@ "P" :> <<1, 2>>
                        @@ "K1" :> <<DEFAULT_PORT_HANDLE>>),
     output_ports |-> ("S1" :> <<DEFAULT_PORT_HANDLE>> @@ "S2" :> <<DEFAULT_PORT_HANDLE>>
                        @@ "P" :> <<DEFAULT_PORT_HANDLE>> @@ "K1" :> << >>),
     source_ops   |-> ("S1" :> {InsertR1} @@ "S2" :> {InsertR1}),
     source_len   |-> ("S1" :> MaxOps @@ "S2" :> 1),
     stateful     |-> {},
     buf_sizes    |-> {1},
     edges        |-> << Edge(Endpoint("S1", DEFAULT_PORT_HANDLE), Endpoint("P", 1)),
                         Edge(Endpoint("S2", DEFAULT_PORT_HANDLE), Endpoint("P", 2)),
                         Edge(Endpoint("P", DEFAULT_PORT_HANDLE), Endpoint("K1", DEFAULT_PORT_HANDLE)) >>]

Dags == {LinearDag, FanOutDag, FanInDag}

\* Dags in which a node has no edge on one side.  One op per source.
\* A second sink that nothing feeds.
NoInputSinkDag ==
    [name         |-> "no-input-sink",
     order        |-> <<"S1", "K1", "K2">>,
     nodes        |-> ("S1" :> "Source" @@ "K1" :> "Sink" @@ "K2" :> "Sink"),
     input_ports  |-> ("S1" :> << >> @@ "K1" :> <<DEFAULT_PORT_HANDLE>>
                        @@ "K2" :> <<DEFAULT_PORT_HANDLE>>),
     output_ports |-> ("S1" :> <<DEFAULT_PORT_HANDLE>> @@ "K1" :> << >> @@ "K2" :> << >>),
     source_ops   |-> ("S1" :> {InsertR1}),
     source_len   |-> ("S1" :> 1),
     stateful     |-> {},
     buf_sizes    |-> {1},
     edges        |-> << Edge(Endpoint("S1", DEFAULT_PORT_HANDLE), Endpoint("K1", DEFAULT_PORT_HANDLE)) >>]

\* A processor that nothing feeds.
NoInputProcessorDag ==
    [name         |-> "no-input-processor",
     order        |-> <<"S1", "P", "K1">>,
     nodes        |-> ("S1" :> "Source" @@ "P" :> "Processor" @@ "K1" :> "Sink"),
     input_ports  |-> ("S1" :> << >> @@ "P" :> <<DEFAULT_PORT_HANDLE>>
                        @@ "K1" :> <<DEFAULT_PORT_HANDLE>>),
     output_ports |-> ("S1" :> <<DEFAULT_PORT_HANDLE>> @@ "P" :> <<DEFAULT_PORT_HANDLE>>
                        @@ "K1" :> << >>),
     source_ops   |-> ("S1" :> {InsertR1}),
     source_len   |-> ("S1" :> 1),
     stateful     |-> {},
     buf_sizes    |-> {1},
     edges        |-> << Edge(Endpoint("S1", DEFAULT_PORT_HANDLE), Endpoint("K1", DEFAULT_PORT_HANDLE)),
                         Edge(Endpoint("P", DEFAULT_PORT_HANDLE), Endpoint("K1", DEFAULT_PORT_HANDLE)) >>]

\* A processor that feeds nothing.
NoOutputProcessorDag ==
    [name         |-> "no-output-processor",
     order        |-> <<"S1", "P", "K1">>,
     nodes        |-> ("S1" :> "Source" @@ "P" :> "Processor" @@ "K1" :> "Sink"),
     input_ports  |-> ("S1" :> << >> @@ "P" :> <<DEFAULT_PORT_HANDLE>>
                        @@ "K1" :> <<DEFAULT_PORT_HANDLE>>),
     output_ports |-> ("S1" :> <<DEFAULT_PORT_HANDLE>> @@ "P" :> <<DEFAULT_PORT_HANDLE>>
                        @@ "K1" :> << >>),
     source_ops   |-> ("S1" :> {InsertR1}),
     source_len   |-> ("S1" :> 1),
     stateful     |-> {},
     buf_sizes    |-> {1},
     edges        |-> << Edge(Endpoint("S1", DEFAULT_PORT_HANDLE), Endpoint("K1", DEFAULT_PORT_HANDLE)),
                         Edge(Endpoint("S1", DEFAULT_PORT_HANDLE), Endpoint("P", DEFAULT_PORT_HANDLE)) >>]

\* A second source that feeds nothing.
NoOutputSourceDag ==
    [name         |-> "no-output-source",
     order        |-> <<"S1", "S2", "K1">>,
     nodes        |-> ("S1" :> "Source" @@ "S2" :> "Source" @@ "K1" :> "Sink"),
     input_ports  |-> ("S1" :> << >> @@ "S2" :> << >> @@ "K1" :> <<DEFAULT_PORT_HANDLE>>),
     output_ports |-> ("S1" :> <<DEFAULT_PORT_HANDLE>> @@ "S2" :> <<DEFAULT_PORT_HANDLE>>
                        @@ "K1" :> << >>),
     source_ops   |-> ("S1" :> {InsertR1} @@ "S2" :> {InsertR1}),
     source_len   |-> ("S1" :> 1 @@ "S2" :> 1),
     stateful     |-> {},
     buf_sizes    |-> {1},
     edges        |-> << Edge(Endpoint("S1", DEFAULT_PORT_HANDLE), Endpoint("K1", DEFAULT_PORT_HANDLE)) >>]

\* The linear DAG with every node stateful: each opens its env and works
\* under transactions.  One op.
StatefulDag ==
    [LinearDag EXCEPT !.name = "stateful",
                      !.stateful = {"S1", "P", "K1"},
                      !.source_ops = [n \in {"S1"} |-> {InsertR1}],
                      !.source_len = [n \in {"S1"} |-> 1],
                      !.buf_sizes = {1}]

\* A processor and a sink that each declare an input port nothing is connected
\* to: port 2 of P and port 3 of K1.  One op.
UnfedPortDag ==
    [name         |-> "unfed-port",
     order        |-> <<"S1", "P", "K1">>,
     nodes        |-> ("S1" :> "Source" @@ "P" :> "Processor" @@ "K1" :> "Sink"),
     input_ports  |-> ("S1" :> << >> @@ "P" :> <<1, 2>> @@ "K1" :> <<1, 2, 3>>),
     output_ports |-> ("S1" :> <<DEFAULT_PORT_HANDLE>> @@ "P" :> <<DEFAULT_PORT_HANDLE>>
                        @@ "K1" :> << >>),
     source_ops   |-> ("S1" :> {InsertR1}),
     source_len   |-> ("S1" :> 1),
     stateful     |-> {},
     buf_sizes    |-> {1},
     edges        |-> << Edge(Endpoint("S1", DEFAULT_PORT_HANDLE), Endpoint("P", 1)),
                         Edge(Endpoint("S1", DEFAULT_PORT_HANDLE), Endpoint("K1", 1)),
                         Edge(Endpoint("P", DEFAULT_PORT_HANDLE), Endpoint("K1", 2)) >>]

IncompleteDags ==
    {NoInputSinkDag, NoInputProcessorDag, NoOutputProcessorDag, NoOutputSourceDag}

\* The same DAGs with one Insert per source and channel_buf_sz = 1.
Short(d) ==
    [d EXCEPT !.source_ops = [n \in DOMAIN d.source_ops |-> {InsertR1}],
              !.source_len = [n \in DOMAIN d.source_len |-> 1],
              !.buf_sizes = {1}]

ShortDags == {Short(d) : d \in Dags}

\* ---------------------------------------------------------- index_edges
\* The insert-or-push of one channel end under its port (the two if/else
\* blocks of the loop body).
add_channel_replace(ports, port, ch) == Put(ports, port, <<ch>>)

add_channel(ports, port, ch) ==
    IF port \in DOMAIN ports
    THEN Put(ports, port, Append(ports[port], ch))
    ELSE Put(ports, port, <<ch>>)

RECURSIVE index_edges_from(_, _, _)
index_edges_from(edges, i, acc) ==
    IF i > Len(edges) THEN acc
    ELSE LET edge == edges[i]
             s0 == IF edge.from.node \in DOMAIN acc.senders
                   THEN acc.senders ELSE Put(acc.senders, edge.from.node, EmptyMap)
             r0 == IF edge.to.node \in DOMAIN acc.receivers
                   THEN acc.receivers ELSE Put(acc.receivers, edge.to.node, EmptyMap)
             \* bounded(channel_buf_sz) creates channel i, the channel of edge i.
             r1 == Put(r0, edge.to.node, add_channel(r0[edge.to.node], edge.to.port, i))
             s1 == Put(s0, edge.from.node, add_channel(s0[edge.from.node], edge.from.port, i))
         IN  index_edges_from(edges, i + 1, [senders |-> s1, receivers |-> r1])

index_edges(d) == index_edges_from(d.edges, 1, [senders |-> EmptyMap, receivers |-> EmptyMap])

\* get_node_types: the nodes of one kind, in the node map's iteration order.
get_node_types(d, kind) == SelectSeq(d.order, LAMBDA n : d.nodes[n] = kind)

\* Sources before processors before sinks (not what the code does).
SpawnOrderSourcesFirst(d) ==
    get_node_types(d, "Source") \o get_node_types(d, "Processor") \o get_node_types(d, "Sink")

\* start spawns sinks, then processors, then sources.
SpawnOrder(d) ==
    get_node_types(d, "Sink") \o get_node_types(d, "Processor") \o get_node_types(d, "Source")

\* build_receivers_lists: the flat receiver list and the parallel port list.
build_receivers_lists(rcv) ==
    LET ports == SortedSeq(DOMAIN rcv)
    IN  [handles_ls   |-> Concat([k \in 1..Len(ports) |->
                                    [j \in 1..Len(rcv[ports[k]]) |-> ports[k]]]),
         receivers_ls |-> Concat([k \in 1..Len(ports) |-> rcv[ports[k]]])]

\* ------------------------------------------------------------------ state
VARIABLES
    dag,                \* the Dag handed to start
    channel_buf_sz,     \* MultiThreadedDagExecutor.channel_buf_sz
    senders,            \* index_edges: node -> port -> channels (sending ends)
    receivers,          \* index_edges: node -> port -> channels (receiving ends)
    chan,               \* the messages buffered in each channel
    tx_alive,           \* the channel's Sender has not been dropped
    rx_alive,           \* the channel's Receiver has not been dropped
    pc,                 \* each worker's position
    result,             \* each worker thread's return value
    outbox,             \* the sends a worker's forwarder still has to complete
    after,              \* what the worker does once its outbox is empty
    input_schemas,      \* the ports for which the worker holds a schema
    schema_initialized, \* the worker's schema_initialized flag
    curr_seq_no,        \* the forwarder's current sequence number
    src_seq,            \* the last seq a source emitted
    spawned,            \* how many nodes of SpawnOrder start has handled
    handles,            \* start's JoinHandle list
    joined,             \* how many handles start has joined
    main_pc,            \* start's position
    start_result,       \* start's return value
    sent,               \* history: the messages put into each channel
    recvd,              \* history: the messages taken out of each channel
    got_term,           \* history: the worker has received a Terminate
    recv_after_term,    \* history: the worker received a message after a Terminate
    emitted,            \* history: <<port, message>> handed to the forwarder
    proc_log,           \* history: the process() calls made for each channel's messages
    deviated,             \* history: an operator returned Err or dropped an op
    first_failed,       \* history: the first worker to return an error, or "none"
    call_err,           \* history: the error an operator or storage call returned to the worker
    txn_log,            \* history: what each worker did with the transactions of its env
    built,              \* the Dag the caller is constructing
    call,               \* history: the last call on built, its arguments and result
    disk,               \* base_path: the environment file of each node
    writes,             \* how many records have been put into the environments
    written,            \* history: what each node's worker persisted
    disk0,              \* history: the environments as the analyzer found them
    ck_pc,              \* the analyzer's position
    metadata,           \* CheckpointMetadataReader.metadata
    removed,            \* history: the environments the analyzer removed
    deps_trees,         \* CheckpointMetadataReader.deps_trees
    consistency,        \* the result of get_dependency_tree_consistency
    stack,              \* the frames of get_source_dependency_tree under way
    field_map,          \* an aggregator's field_map: field -> count
    update,             \* history: the last call of update_map
    calls               \* how many calls of update_map there have been

chanVars == <<chan, tx_alive, rx_alive>>

threadVars == <<pc, result, first_failed, outbox, after>>

workerVars == <<input_schemas, schema_initialized, curr_seq_no, src_seq>>

mainVars == <<spawned, handles, joined, main_pc, start_result>>

histVars == <<sent, recvd, got_term, recv_after_term, emitted, proc_log, deviated,
             call_err, txn_log>>

execVars == <<dag, channel_buf_sz, senders, receivers, chanVars, threadVars,
              workerVars, mainVars, histVars>>

builderVars == <<built, call>>

ckVars == <<disk, writes, written, disk0, ck_pc, metadata, removed, deps_trees,
            consistency, stack>>

aggVars == <<field_map, update, calls>>

vars == <<execVars, builderVars, ckVars, aggVars>>

Nodes == DOMAIN dag.nodes

Channels == 1..Len(dag.edges)

NodesOf(kind) == {n \in Nodes : dag.nodes[n] = kind}

\* The channel ends a worker owns, as flat sets.
SenderChans(n) ==
    IF n \in DOMAIN senders
    THEN UNION {Range(senders[n][p]) : p \in DOMAIN senders[n]} ELSE {}

ReceiverChans(n) ==
    IF n \in DOMAIN receivers
    THEN UNION {Range(receivers[n][p]) : p \in DOMAIN receivers[n]} ELSE {}

receivers_ls(n) == build_receivers_lists(receivers[n]).receivers_ls

handles_ls(n) == build_receivers_lists(receivers[n]).handles_ls

\* ------------------------------------------------- LocalChannelForwarder
\* One message to every sender of a port, in the order of the sender list.
fw_broadcast(n, port, msg) ==
    IF port \in DOMAIN senders[n]
    THEN [k \in 1..Len(senders[n][port]) |-> [ch |-> senders[n][port][k], msg |-> msg]]
    ELSE << >>

\* update_schema(schema, port)
fw_update_schema(n, schema, port) == fw_broadcast(n, port, SchemaUpdate(schema))

\* send(op, port): the op tagged with the sequence number seq.
\* The forwarder stamps an op with a seq of its own count (not what the code
\* does).
TaggedOwnCount(seq, op) ==
    CASE op.type = "Insert" -> Insert(seq + 1, op.new)
      [] op.type = "Delete" -> Delete(seq + 1, op.old)
      [] op.type = "Update" -> Update(seq + 1, op.old, op.new)

Tagged(seq, op) ==
    CASE op.type = "Insert" -> Insert(seq, op.new)
      [] op.type = "Delete" -> Delete(seq, op.old)
      [] op.type = "Update" -> Update(seq, op.old, op.new)

fw_send(n, seq, op, port) == fw_broadcast(n, port, Tagged(seq, op))

\* send_term(): Terminate on every sender of every port.
fw_send_term(n) ==
    LET ports == SortedSeq(DOMAIN senders[n])
    IN  Concat([k \in 1..Len(ports) |-> fw_broadcast(n, ports[k], Terminate)])

\* ------------------------------------------------------------------- Init
\* The state on entry to start(dag, path), index_edges done, for a dag of dags.
InitExec(dags) ==
    /\ dag \in dags
    /\ channel_buf_sz \in dag.buf_sizes
    /\ senders = index_edges(dag).senders
    /\ receivers = index_edges(dag).receivers
    /\ chan = [c \in Channels |-> << >>]
    /\ tx_alive = [c \in Channels |-> TRUE]
    /\ rx_alive = [c \in Channels |-> TRUE]
    /\ pc = [n \in Nodes |-> "unspawned"]
    /\ result = [n \in Nodes |-> NoResult]
    /\ first_failed = "none"
    /\ outbox = [n \in Nodes |-> << >>]
    /\ after = [n \in Nodes |-> NoExit]
    /\ input_schemas = [n \in Nodes |-> {}]
    /\ schema_initialized = [n \in Nodes |-> FALSE]
    /\ curr_seq_no = [n \in Nodes |-> 0]
    /\ src_seq = [n \in Nodes |-> 0]
    /\ spawned = 0
    /\ handles = << >>
    /\ joined = 0
    /\ main_pc = "spawn"
    /\ start_result = NoResult
    /\ sent = [c \in Channels |-> << >>]
    /\ recvd = [c \in Channels |-> << >>]
    /\ got_term = [n \in Nodes |-> FALSE]
    /\ recv_after_term = [n \in Nodes |-> FALSE]
    /\ emitted = [n \in Nodes |-> << >>]
    /\ proc_log = [c \in Channels |-> << >>]
    /\ deviated = FALSE
    /\ call_err = [n \in Nodes |-> NoResult]
    /\ txn_log = [n \in Nodes |-> << >>]

\* No analysis of checkpoints is under way and nothing has been persisted.
CkIdle ==
    /\ disk = EmptyMap
    /\ writes = 0
    /\ written = EmptyMap
    /\ disk0 = EmptyMap
    /\ ck_pc = "idle"
    /\ metadata = EmptyMap
    /\ removed = {}
    /\ deps_trees = EmptyMap
    /\ consistency = EmptyMap
    /\ stack = << >>

\* No aggregator has counted a field.
AggIdle ==
    /\ field_map = EmptyMap
    /\ update = [fields |-> << >>]
    /\ calls = 0

InitWith(dags) ==
    /\ InitExec(dags)
    /\ built = new_dag
    /\ call = [op |-> "new", result |-> Unit]
    /\ CkIdle
    /\ AggIdle

Init == InitWith(Dags \cup IncompleteDags \cup {StatefulDag, UnfedPortDag})

\* --------------------------------------------------- leaving a worker thread
\* The thread closure returns (or unwinds): the forwarder and the receiver
\* list it owns are dropped, which disconnects their channels.
Exit(n, res) ==
    /\ pc' = [pc EXCEPT ![n] = "done"]
    /\ result' = [result EXCEPT ![n] = res]
    /\ first_failed' = IF res # Ok /\ first_failed = "none" THEN n ELSE first_failed
    /\ outbox' = [outbox EXCEPT ![n] = << >>]
    /\ after' = [after EXCEPT ![n] = NoExit]
    /\ tx_alive' = [c \in Channels |-> IF c \in SenderChans(n) THEN FALSE ELSE tx_alive[c]]
    /\ rx_alive' = [c \in Channels |-> IF c \in ReceiverChans(n) THEN FALSE ELSE rx_alive[c]]

\* The worker goes on with the sends `items`; once they are done it returns
\* `aft`, or carries on when aft = NoExit.
Continue(n, items, aft) ==
    IF items = << >> /\ aft \notin {NoExit, Commit}
    THEN Exit(n, aft)
    ELSE /\ outbox' = [outbox EXCEPT ![n] = items]
         /\ after' = [after EXCEPT ![n] = aft]
         /\ UNCHANGED <<pc, result, first_failed, tx_alive, rx_alive>>

\* The operator (or the runtime) hands msg to the forwarder for each of ports.
Emit(n, ports, msg) ==
    emitted' = [emitted EXCEPT ![n] = @ \o [k \in 1..Len(ports) |-> <<ports[k], msg>>]]

\* ------------------------------------------------------------ crossbeam
\* bounded(cap): a send completes only while fewer than cap messages wait.
HasRoomUnbounded(c) == TRUE

HasRoom(c) == Len(chan[c]) < channel_buf_sz

\* recv() takes the oldest message of the channel.
DequeueNewest(q) == [msg |-> q[Len(q)], rest |-> SubSeq(q, 1, Len(q) - 1)]

Dequeue(q) == [msg |-> Head(q), rest |-> Tail(q)]

\* A send is parked on channel c: the channel is full and a forwarder has its
\* next message for it (backpressure).
SendWaits(c) ==
    /\ ~HasRoom(c)
    /\ \E m \in Nodes : outbox[m] # << >> /\ Head(outbox[m]).ch = c

\* recv() on an empty channel fails once every Sender is dropped.
DisconnectedNever(c) == FALSE

DisconnectedEarly(c) == ~tx_alive[c]

Disconnected(c) == chan[c] = << >> /\ ~tx_alive[c]

\* One blocking send of the forwarder completes, or fails because the
\* receiving worker is gone.
ForwarderSend(n) ==
    /\ pc[n] \in {"init", "open", "loop"}
    /\ outbox[n] # << >>
    /\ LET item == Head(outbox[n])
           c == item.ch
       IN  IF ~rx_alive[c]
           THEN /\ Exit(n, Res("SendError"))
                /\ UNCHANGED <<chan, sent>>
           ELSE /\ HasRoom(c)
                /\ chan' = [chan EXCEPT ![c] = Append(@, item.msg)]
                /\ sent' = [sent EXCEPT ![c] = Append(@, item.msg)]
                /\ IF Tail(outbox[n]) = << >> /\ after[n] \notin {NoExit, Commit}
                   THEN Exit(n, after[n])
                   ELSE /\ outbox' = [outbox EXCEPT ![n] = Tail(@)]
                        /\ UNCHANGED <<pc, result, first_failed, after, tx_alive, rx_alive>>
    /\ UNCHANGED <<builderVars, ckVars, aggVars, dag, channel_buf_sz, senders, receivers, workerVars, mainVars,
                   recvd, got_term, recv_after_term, emitted, proc_log, deviated, call_err, txn_log>>

\* ------------------------------------------------------------------ start
\* What start finds when it takes node n's channel ends out of its indexes.
SpawnCheck(n) ==
    IF dag.nodes[n] \in {"Sink", "Processor"} /\ n \notin DOMAIN receivers
    THEN ResOf("MissingNodeInput", n)
    ELSE IF dag.nodes[n] = "Processor" /\ n \notin DOMAIN senders
    THEN ResOf("MissingNodeOutput", n)
    ELSE IF dag.nodes[n] = "Source" /\ n \notin DOMAIN senders
    THEN Res("panic")
    ELSE Ok

\* One iteration of the three spawn loops.  On an error start returns at once
\* and drops the channel ends still held by its indexes.
StartSpawn ==
    /\ main_pc = "spawn"
    /\ spawned < Len(SpawnOrder(dag))
    /\ LET n == SpawnOrder(dag)[spawned + 1]
           rest == {SpawnOrder(dag)[k] : k \in (spawned + 1)..Len(SpawnOrder(dag))}
       IN  IF SpawnCheck(n) # Ok
           THEN /\ main_pc' = "done"
                /\ start_result' = SpawnCheck(n)
                /\ tx_alive' = [c \in Channels |->
                       IF \E m \in rest : c \in SenderChans(m) THEN FALSE ELSE tx_alive[c]]
                /\ rx_alive' = [c \in Channels |->
                       IF \E m \in rest : c \in ReceiverChans(m) THEN FALSE ELSE rx_alive[c]]
                /\ UNCHANGED <<pc, handles, spawned>>
           ELSE /\ pc' = [pc EXCEPT ![n] = "init"]
                /\ handles' = Append(handles, n)
                /\ spawned' = spawned + 1
                /\ main_pc' = IF spawned + 1 = Len(SpawnOrder(dag)) THEN "join" ELSE "spawn"
                /\ UNCHANGED <<start_result, tx_alive, rx_alive>>
    /\ UNCHANGED <<builderVars, ckVars, aggVars, dag, channel_buf_sz, senders, receivers, chan, result, first_failed, outbox, after,
                   workerVars, joined, histVars>>

\* A `?` that lets every result through (not what the code does).
JoinFailsNever(res) == FALSE

\* The `?` on the joined worker's result: an Err ends start.
JoinFails(res) == res # Ok

\* One iteration of the join loop: sh.join().unwrap()?
StartJoin ==
    /\ main_pc = "join"
    /\ joined < Len(handles)
    /\ LET n == handles[joined + 1]
       IN  /\ pc[n] = "done"
           /\ IF JoinFails(result[n])
              THEN /\ main_pc' = "done"
                   /\ start_result' = result[n]
                   /\ UNCHANGED joined
              ELSE /\ joined' = joined + 1
                   /\ main_pc' = IF joined + 1 = Len(handles) THEN "done" ELSE "join"
                   /\ start_result' = IF joined + 1 = Len(handles) THEN Ok ELSE start_result
    /\ UNCHANGED <<builderVars, ckVars, aggVars, dag, channel_buf_sz, senders, receivers, chanVars, threadVars,
                   workerVars, spawned, handles, histVars>>

\* ------------------------------------------------- env and transactions
\* is_stateful()
Stateful(n) == n \in dag.stateful

\* How a call into the operator goes, with the storage calls around it when
\* the node is stateful: start_env (at init), tx_begin, the call, commit.
InitOutcomes(n) ==
    IF Stateful(n) THEN {"ok", "env_err", "begin_err", "call_err", "commit_err"}
    ELSE {"ok", "call_err"}

ProcessOutcomes(n) ==
    IF Stateful(n) THEN {"ok", "begin_err", "call_err", "commit_err"}
    ELSE {"ok", "call_err"}

StartOutcomes(n) == IF Stateful(n) THEN {"ok", "env_err", "begin_err"} ELSE {"ok"}

\* The operator was called.
Called(how) == how \in {"ok", "call_err", "commit_err"}

\* A transaction that is committed whatever the call returned (not what the
\* code does).
TxnEndCommitted(how) == <<"commit">>

\* What becomes of the transaction after the call: `?` on an Err drops it,
\* otherwise commit is called, and succeeds or fails.
TxnEnd(how) ==
    CASE how = "ok" -> <<"commit">>
      [] how = "call_err" -> <<"drop">>
      [] how = "commit_err" -> <<"commit_err">>

\* The transaction events of one call made by worker n.
TxnEvents(n, how, fn) ==
    IF ~Stateful(n) \/ ~Called(how) THEN << >>
    ELSE <<"begin", fn>> \o (IF how = "call_err" THEN <<"failed">> ELSE << >>) \o TxnEnd(how)

\* The error the `?` after the failing call returns from the worker.
OutcomeResult(how, fn) ==
    CASE how = "ok" -> Ok
      [] how = "env_err" -> Res("EnvError")
      [] how = "begin_err" -> Res("TxnBeginError")
      [] how = "call_err" -> Res(IF fn = "init" THEN "InitError" ELSE "ProcessError")
      [] how = "commit_err" -> Res("CommitError")

\* History of a call that went `how`.
Record(n, how, fn) ==
    /\ txn_log' = [txn_log EXCEPT ![n] = @ \o TxnEvents(n, how, fn)]
    /\ call_err' = IF how = "ok" THEN call_err
                   ELSE [call_err EXCEPT ![n] = OutcomeResult(how, fn)]
    /\ deviated' = (deviated \/ how # "ok")

\* History of an operator call that returned err outside a transaction.
RecordErr(n, err) ==
    /\ call_err' = [call_err EXCEPT ![n] = err]
    /\ deviated' = TRUE
    /\ UNCHANGED txn_log

\* ----------------------------------------------------------- start_source
\* The schemas the source supplies are forwarded on their ports.
SourceInit(n) ==
    /\ dag.nodes[n] = "Source"
    /\ pc[n] = "init"
    /\ outbox[n] = << >>
    /\ \E with_schema \in SUBSET Range(dag.output_ports[n]) :
          LET ports == SelectSeq(dag.output_ports[n], LAMBDA p : p \in with_schema)
          IN  /\ outbox' = [outbox EXCEPT ![n] =
                     Concat([k \in 1..Len(ports) |-> fw_update_schema(n, "schema", ports[k])])]
              /\ Emit(n, ports, SchemaUpdate("schema"))
    /\ pc' = [pc EXCEPT ![n] = IF Stateful(n) THEN "open" ELSE "loop"]
    /\ UNCHANGED <<builderVars, ckVars, aggVars, dag, channel_buf_sz, senders, receivers, chanVars, result, first_failed, after,
                   workerVars, mainVars, sent, recvd, got_term, recv_after_term, proc_log, deviated, call_err, txn_log>>

\* A stateful source, its schemas sent: start_env and tx_begin, and on Ok
\* src.start is entered with the transaction.
SourceOpen(n) ==
    /\ dag.nodes[n] = "Source"
    /\ pc[n] = "open"
    /\ outbox[n] = << >>
    /\ \E how \in StartOutcomes(n) :
          /\ txn_log' = [txn_log EXCEPT ![n] = @ \o (IF how = "ok" THEN <<"begin">> ELSE << >>)]
          /\ call_err' = IF how = "ok" THEN call_err
                         ELSE [call_err EXCEPT ![n] = OutcomeResult(how, "start")]
          /\ deviated' = (deviated \/ how # "ok")
          /\ IF how = "ok"
             THEN /\ pc' = [pc EXCEPT ![n] = "loop"]
                  /\ UNCHANGED <<result, first_failed, outbox, after, tx_alive, rx_alive>>
             ELSE Exit(n, OutcomeResult(how, "start"))
    /\ UNCHANGED <<builderVars, ckVars, aggVars, dag, channel_buf_sz, senders, receivers, chan,
                   workerVars, mainVars, sent, recvd, got_term, recv_after_term, emitted, proc_log>>

\* Source.start sends the next data op, with the next sequence number.
SourceSend(n) ==
    /\ dag.nodes[n] = "Source"
    /\ pc[n] = "loop"
    /\ outbox[n] = << >>
    /\ src_seq[n] < dag.source_len[n]
    /\ \E op \in dag.source_ops[n], k \in 1..Len(dag.output_ports[n]) :
          LET port == dag.output_ports[n][k]
              items == fw_send(n, src_seq[n] + 1, op, port)
          IN  /\ Continue(n, items, NoExit)
              /\ Emit(n, <<port>>, Tagged(src_seq[n] + 1, op))
    /\ src_seq' = [src_seq EXCEPT ![n] = @ + 1]
    /\ UNCHANGED <<builderVars, ckVars, aggVars, dag, channel_buf_sz, senders, receivers, chan, input_schemas,
                   schema_initialized, curr_seq_no, mainVars,
                   sent, recvd, got_term, recv_after_term, proc_log, deviated, call_err, txn_log>>

\* Source.start calls the forwarder's terminate and returns Ok.
SourceTerminate(n) ==
    /\ dag.nodes[n] = "Source"
    /\ pc[n] = "loop"
    /\ outbox[n] = << >>
    /\ Continue(n, fw_send_term(n), Ok)
    /\ Emit(n, SortedSeq(DOMAIN senders[n]), Terminate)
    /\ UNCHANGED <<builderVars, ckVars, aggVars, dag, channel_buf_sz, senders, receivers, chan, workerVars, mainVars,
                   sent, recvd, got_term, recv_after_term, proc_log, deviated, call_err, txn_log>>

\* Source.start returns without having called terminate.
SourceReturn(n) ==
    /\ dag.nodes[n] = "Source"
    /\ pc[n] = "loop"
    /\ outbox[n] = << >>
    /\ \E res \in {Ok, Res("SourceError")} :
          /\ Exit(n, res)
          /\ deviated' = (deviated \/ res # Ok)
          /\ call_err' = IF res = Ok THEN call_err ELSE [call_err EXCEPT ![n] = res]
    /\ UNCHANGED <<builderVars, ckVars, aggVars, dag, channel_buf_sz, senders, receivers, chan, workerVars, mainVars,
                   sent, recvd, got_term, recv_after_term, emitted, proc_log, txn_log>>

\* ------------------------------------------ the receive loop of a worker
\* sel.ready() returned index i (0-based i - 1) and recv() took the message.
Recv(n, i) ==
    /\ pc[n] = "loop"
    /\ outbox[n] = << >>
    /\ after[n] = NoExit
    /\ i \in 1..Len(receivers_ls(n))
    /\ chan[receivers_ls(n)[i]] # << >>
    /\ chan' = [chan EXCEPT ![receivers_ls(n)[i]] = Dequeue(@).rest]
    /\ recvd' = [recvd EXCEPT ![receivers_ls(n)[i]] = Append(@, Dequeue(chan[receivers_ls(n)[i]]).msg)]
    /\ got_term' = [got_term EXCEPT ![n] = @ \/ Dequeue(chan[receivers_ls(n)[i]]).msg.type = "Terminate"]
    /\ recv_after_term' = [recv_after_term EXCEPT ![n] = @ \/ got_term[n]]

Received(n, i) == Dequeue(chan[receivers_ls(n)[i]]).msg

\* count == 0: every declared input port has a schema.
SchemasCompleteAny(ports, schemas) == \E k \in 1..Len(ports) : ports[k] \in schemas

SchemasComplete(ports, schemas) == \A k \in 1..Len(ports) : ports[k] \in schemas

\* The guard in front of map_to_op and process.
MayProcessAlways(n) == TRUE

MayProcess(n) == schema_initialized[n]

\* ------------------------------------------------------------- start_sink
SinkInit(n) ==
    /\ dag.nodes[n] = "Sink"
    /\ pc[n] = "init"
    /\ \E how \in InitOutcomes(n) :
          /\ Record(n, how, "init")
          /\ IF how = "ok"
             THEN /\ pc' = [pc EXCEPT ![n] = "loop"]
                  /\ UNCHANGED <<result, first_failed, outbox, after, tx_alive, rx_alive>>
             ELSE Exit(n, OutcomeResult(how, "init"))
    /\ UNCHANGED <<builderVars, ckVars, aggVars, dag, channel_buf_sz, senders, receivers, chan, workerVars, mainVars,
                   sent, recvd, got_term, recv_after_term, emitted, proc_log>>

SinkSchemaUpdate(n, i) ==
    /\ dag.nodes[n] = "Sink"
    /\ Recv(n, i)
    /\ Received(n, i).type = "SchemaUpdate"
    /\ input_schemas' = [input_schemas EXCEPT ![n] = @ \cup {handles_ls(n)[i]}]
    /\ IF SchemasComplete(dag.input_ports[n], input_schemas'[n])
       THEN \E ok \in BOOLEAN :
               IF ok
               THEN /\ schema_initialized' = [schema_initialized EXCEPT ![n] = TRUE]
                    /\ UNCHANGED <<threadVars, tx_alive, rx_alive, deviated, call_err, txn_log>>
               ELSE /\ Exit(n, Res("SchemaUpdateError"))
                    /\ RecordErr(n, Res("SchemaUpdateError"))
                    /\ UNCHANGED schema_initialized
       ELSE UNCHANGED <<schema_initialized, threadVars, tx_alive, rx_alive, deviated, call_err, txn_log>>
    /\ UNCHANGED <<builderVars, ckVars, aggVars, dag, channel_buf_sz, senders, receivers, curr_seq_no, src_seq, mainVars,
                   sent, emitted, proc_log>>

SinkTerminate(n, i) ==
    /\ dag.nodes[n] = "Sink"
    /\ Recv(n, i)
    /\ Received(n, i).type = "Terminate"
    /\ Exit(n, Ok)
    /\ UNCHANGED <<builderVars, ckVars, aggVars, dag, channel_buf_sz, senders, receivers, workerVars, mainVars,
                   sent, emitted, proc_log,  deviated, call_err, txn_log>>

SinkData(n, i) ==
    /\ dag.nodes[n] = "Sink"
    /\ Recv(n, i)
    /\ IsDataOp(Received(n, i))
    /\ IF ~MayProcess(n)
       THEN /\ Exit(n, Res("SchemaNotInitialized"))
            /\ UNCHANGED <<proc_log, deviated, call_err, txn_log>>
       ELSE LET data_op == map_to_op(Received(n, i))
            IN  IF ~data_op.ok
                THEN /\ Exit(n, data_op.err)
                     /\ UNCHANGED <<proc_log, deviated, call_err, txn_log>>
                ELSE \E how \in ProcessOutcomes(n) :
                        /\ proc_log' =
                              IF Called(how)
                              THEN [proc_log EXCEPT ![receivers_ls(n)[i]] =
                                      Append(@, <<handles_ls(n)[i], data_op.seq, data_op.op>>)]
                              ELSE proc_log
                        /\ Record(n, how, "process")
                        /\ IF how = "ok"
                           THEN UNCHANGED <<threadVars, tx_alive, rx_alive>>
                           ELSE Exit(n, OutcomeResult(how, "process"))
    /\ UNCHANGED <<builderVars, ckVars, aggVars, dag, channel_buf_sz, senders, receivers, workerVars, mainVars,
                   sent, emitted>>

\* recv() on a disconnected, drained channel: SinkReceiverError(index, _).
SinkRecvError(n, i) ==
    /\ dag.nodes[n] = "Sink"
    /\ pc[n] = "loop"
    /\ i \in 1..Len(receivers_ls(n))
    /\ Disconnected(receivers_ls(n)[i])
    /\ Exit(n, ResAt("SinkReceiverError", i - 1))
    /\ UNCHANGED <<builderVars, ckVars, aggVars, dag, channel_buf_sz, senders, receivers, chan, workerVars, mainVars,
                   histVars>>

\* -------------------------------------------------------- start_processor
ProcessorInit(n) ==
    /\ dag.nodes[n] = "Processor"
    /\ pc[n] = "init"
    /\ \E how \in InitOutcomes(n) :
          /\ Record(n, how, "init")
          /\ IF how = "ok"
             THEN /\ pc' = [pc EXCEPT ![n] = "loop"]
                  /\ UNCHANGED <<result, first_failed, outbox, after, tx_alive, rx_alive>>
             ELSE Exit(n, OutcomeResult(how, "init"))
    /\ UNCHANGED <<builderVars, ckVars, aggVars, dag, channel_buf_sz, senders, receivers, chan, workerVars, mainVars,
                   sent, recvd, got_term, recv_after_term, emitted, proc_log>>

\* For each output port in turn: proc.update_schema, and on Ok the schema is
\* forwarded; the first Err panics (todo!).  k is the number of ports done.
ProcessorSchemaUpdate(n, i) ==
    /\ dag.nodes[n] = "Processor"
    /\ Recv(n, i)
    /\ Received(n, i).type = "SchemaUpdate"
    /\ input_schemas' = [input_schemas EXCEPT ![n] = @ \cup {handles_ls(n)[i]}]
    /\ IF SchemasComplete(dag.input_ports[n], input_schemas'[n])
       THEN \E k \in 0..Len(dag.output_ports[n]) :
               LET ports == SubSeq(dag.output_ports[n], 1, k)
               IN  /\ Continue(n,
                         Concat([j \in 1..k |-> fw_update_schema(n, "schema", ports[j])]),
                         IF k < Len(dag.output_ports[n]) THEN Res("panic") ELSE NoExit)
                   /\ Emit(n, ports, SchemaUpdate("schema"))
                   /\ schema_initialized' =
                         [schema_initialized EXCEPT ![n] = @ \/ k >= 1]
                   /\ IF k < Len(dag.output_ports[n])
                      THEN RecordErr(n, Res("SchemaUpdateError"))
                      ELSE UNCHANGED <<deviated, call_err, txn_log>>
       ELSE UNCHANGED <<schema_initialized, threadVars, tx_alive, rx_alive, emitted, deviated, call_err, txn_log>>
    /\ UNCHANGED <<builderVars, ckVars, aggVars, dag, channel_buf_sz, senders, receivers, curr_seq_no, src_seq, mainVars,
                   sent, proc_log>>

\* What the Terminate arm does after send_term: return Ok(()).
TerminateResultNone == NoExit

TerminateResult == Ok

\* fw.send_term()?; return Ok(())
ProcessorTerminate(n, i) ==
    /\ dag.nodes[n] = "Processor"
    /\ Recv(n, i)
    /\ Received(n, i).type = "Terminate"
    /\ Continue(n, fw_send_term(n), TerminateResult)
    /\ Emit(n, SortedSeq(DOMAIN senders[n]), Terminate)
    /\ UNCHANGED <<builderVars, ckVars, aggVars, dag, channel_buf_sz, senders, receivers, workerVars, mainVars,
                   sent, proc_log,  deviated, call_err, txn_log>>

\* What Processor.process does with the op: forward it on every output port,
\* forward nothing, or return Err.
ProcessorData(n, i) ==
    /\ dag.nodes[n] = "Processor"
    /\ Recv(n, i)
    /\ IsDataOp(Received(n, i))
    /\ IF ~MayProcess(n)
       THEN /\ Exit(n, Res("SchemaNotInitialized"))
            /\ UNCHANGED <<proc_log, deviated, call_err, txn_log, curr_seq_no, emitted>>
       ELSE LET data_op == map_to_op(Received(n, i))
                ports == dag.output_ports[n]
            IN  IF ~data_op.ok
                THEN /\ Exit(n, data_op.err)
                     /\ UNCHANGED <<proc_log, deviated, call_err, txn_log, curr_seq_no, emitted>>
                ELSE /\ curr_seq_no' = [curr_seq_no EXCEPT ![n] = data_op.seq]
                     /\ \E does \in {"forward", "nothing"} \cup (ProcessOutcomes(n) \ {"ok"}) :
                           /\ proc_log' =
                                 IF does # "begin_err"
                                 THEN [proc_log EXCEPT ![receivers_ls(n)[i]] =
                                         Append(@, <<handles_ls(n)[i], data_op.seq, data_op.op>>)]
                                 ELSE proc_log
                           /\ CASE does = "forward" ->
                                    \* the sends are made inside process; the commit follows them
                                    /\ Continue(n,
                                          Concat([j \in 1..Len(ports) |->
                                              fw_send(n, curr_seq_no'[n], data_op.op, ports[j])]),
                                          IF Stateful(n) THEN Commit ELSE NoExit)
                                    /\ Emit(n, ports, Tagged(curr_seq_no'[n], data_op.op))
                                    /\ txn_log' = [txn_log EXCEPT ![n] =
                                           @ \o (IF Stateful(n) THEN <<"begin", "process">> ELSE << >>)]
                                    /\ UNCHANGED <<deviated, call_err>>
                                [] does = "nothing" ->
                                    /\ deviated' = TRUE
                                    /\ txn_log' = [txn_log EXCEPT ![n] = @ \o TxnEvents(n, "ok", "process")]
                                    /\ UNCHANGED <<threadVars, tx_alive, rx_alive, emitted, call_err>>
                                [] OTHER ->
                                    /\ Record(n, does, "process")
                                    /\ Exit(n, OutcomeResult(does, "process"))
                                    /\ UNCHANGED emitted
    /\ UNCHANGED <<builderVars, ckVars, aggVars, dag, channel_buf_sz, senders, receivers, input_schemas,
                   schema_initialized, src_seq, mainVars, sent>>

\* The sends of process are done: txn.commit()?
ProcessorCommit(n) ==
    /\ dag.nodes[n] = "Processor"
    /\ pc[n] = "loop"
    /\ outbox[n] = << >>
    /\ after[n] = Commit
    /\ \E how \in {"ok", "commit_err"} :
          /\ txn_log' = [txn_log EXCEPT ![n] = @ \o TxnEnd(how)]
          /\ call_err' = IF how = "ok" THEN call_err
                         ELSE [call_err EXCEPT ![n] = OutcomeResult(how, "process")]
          /\ deviated' = (deviated \/ how # "ok")
          /\ IF how = "ok"
             THEN /\ after' = [after EXCEPT ![n] = NoExit]
                  /\ UNCHANGED <<pc, result, first_failed, outbox, tx_alive, rx_alive>>
             ELSE Exit(n, OutcomeResult(how, "process"))
    /\ UNCHANGED <<builderVars, ckVars, aggVars, dag, channel_buf_sz, senders, receivers, chan, workerVars, mainVars,
                   sent, recvd, got_term, recv_after_term, emitted, proc_log>>

\* recv() on a disconnected, drained channel: ProcessorReceiverError(index, _).
ProcessorRecvError(n, i) ==
    /\ dag.nodes[n] = "Processor"
    /\ pc[n] = "loop"
    /\ outbox[n] = << >>
    /\ i \in 1..Len(receivers_ls(n))
    /\ Disconnected(receivers_ls(n)[i])
    /\ Exit(n, ResAt("ProcessorReceiverError", i - 1))
    /\ UNCHANGED <<builderVars, ckVars, aggVars, dag, channel_buf_sz, senders, receivers, chan, workerVars, mainVars,
                   histVars>>

\* ------------------------------------------------------------------- Next
MaxFanIn == 2

Source(n) == SourceInit(n) \/ SourceOpen(n) \/ SourceSend(n) \/ SourceTerminate(n) \/ SourceReturn(n)

Sink(n) ==
    \/ SinkInit(n)
    \/ \E i \in 1..MaxFanIn :
          SinkSchemaUpdate(n, i) \/ SinkTerminate(n, i) \/ SinkData(n, i) \/ SinkRecvError(n, i)

Processor(n) ==
    \/ ProcessorInit(n)
    \/ ProcessorCommit(n)
    \/ \E i \in 1..MaxFanIn :
          \/ ProcessorSchemaUpdate(n, i)
          \/ ProcessorTerminate(n, i)
          \/ ProcessorData(n, i)
          \/ ProcessorRecvError(n, i)

Worker(n) == Source(n) \/ Sink(n) \/ Processor(n) \/ ForwarderSend(n)

Next ==
    \/ StartSpawn
    \/ StartJoin
    \/ \E n \in Nodes : Worker(n)

Spec == Init /\ [][Next]_vars

\* Scheduling: while start or some spawned processor or sink thread can take a
\* step, one of them eventually does.  Nothing forces Source.start to go on or
\* to return.
NonSourceWorker(n) ==
    /\ dag.nodes[n] # "Source"
    /\ (Sink(n) \/ Processor(n) \/ ForwarderSend(n))

Scheduled == StartSpawn \/ StartJoin \/ \E n \in Nodes : NonSourceWorker(n)

FairSpec == InitWith(ShortDags) /\ [][Next]_vars /\ WF_vars(Scheduled)

\* ------------------------------------------------- constructing a Dag
\* The caller's calls on the Dag it is constructing, before it is started.
AddNode ==
    /\ \E handle \in NodeHandles, node_builder \in NodeTypes :
          /\ built' = add_node(built, node_builder, handle)
          /\ call' = [op |-> "add_node", handle |-> handle, node |-> node_builder,
                      result |-> Unit]
    /\ UNCHANGED <<execVars, ckVars, aggVars>>

Connect ==
    /\ \E from \in Endpoints, to \in Endpoints :
          /\ Len(connect(built, from, to).dag.edges) <= MaxEdges
          /\ built' = connect(built, from, to).dag
          /\ call' = [op |-> "connect", from |-> from, to |-> to,
                      result |-> connect(built, from, to).result]
    /\ UNCHANGED <<execVars, ckVars, aggVars>>

Merge ==
    /\ \E namespace \in Namespaces, other \in OtherDags :
          /\ Len(built.edges) + Len(other.edges) <= MaxEdges
          /\ built' = merge(built, namespace, other)
          /\ call' = [op |-> "merge", namespace |-> namespace, other |-> other,
                      result |-> Unit]
    /\ UNCHANGED <<execVars, ckVars, aggVars>>

DagInit == InitWith({Short(LinearDag)})

DagNext == AddNode \/ Connect \/ Merge

DagSpec == DagInit /\ [][DagNext]_vars

\* ------------------------------------------------ executor_checkpoint.rs
\* The checkpoint database of a node: records of a key and a value, each a
\* sequence of bytes, that a cursor yields in the order of their keys.

\* The tag byte that opens the key of each kind of record.
SOURCE_ID_IDENTIFIER == 1

OUTPUT_SCHEMA_IDENTIFIER == 2

INPUT_SCHEMA_IDENTIFIER == 3

\* v on w bytes, the most significant byte first.
RECURSIVE to_be_bytes(_, _)
to_be_bytes(v, w) ==
    IF w = 0 THEN << >> ELSE Append(to_be_bytes(v \div 256, w - 1), v % 256)

\* u64::from_be_bytes, PortHandle::from_be_bytes.
RECURSIVE from_be_bytes(_)
from_be_bytes(b) ==
    IF b = << >> THEN 0
    ELSE from_be_bytes(SubSeq(b, 1, Len(b) - 1)) * 256 + b[Len(b)]

\* The handles of the nodes of the analysed Dags, and their characters.
CkHandles == {"S", "T", "A", "B"}

chars(h) ==
    CASE h = "S" -> <<83>>
      [] h = "T" -> <<84>>
      [] h = "A" -> <<65>>
      [] h = "B" -> <<66>>

\* The handle String::from_utf8_lossy yields for an invalid byte sequence.
REPLACEMENT_CHARACTER == 65533

\* The String of a sequence of characters; "?" stands for every String that
\* is the handle of no node.
to_string(cs) ==
    IF \E h \in CkHandles : chars(h) = cs
    THEN CHOOSE h \in CkHandles : chars(h) = cs
    ELSE "?"

\* str::as_bytes: the UTF-8 encoding, of one byte below U+0080 and of two
\* bytes below U+0800.
RECURSIVE utf8(_)
utf8(cs) ==
    IF cs = << >> THEN << >>
    ELSE (IF Head(cs) < 128 THEN <<Head(cs)>>
          ELSE <<192 + (Head(cs) \div 64), 128 + (Head(cs) % 64)>>) \o utf8(Tail(cs))

as_bytes(h) == utf8(chars(h))

\* String::from_utf8_lossy: one- and two-byte sequences are decoded, every
\* other byte becomes U+FFFD.
RECURSIVE decode_utf8_lossy(_)
decode_utf8_lossy(b) ==
    IF b = << >> THEN << >>
    ELSE IF b[1] < 128 THEN <<b[1]>> \o decode_utf8_lossy(Tail(b))
    ELSE IF b[1] \in 194..223 /\ Len(b) >= 2 /\ b[2] \in 128..191
         THEN <<(b[1] - 192) * 64 + (b[2] - 128)>> \o decode_utf8_lossy(Tail(Tail(b)))
    ELSE <<REPLACEMENT_CHARACTER>> \o decode_utf8_lossy(Tail(b))

from_utf8_lossy(b) == to_string(decode_utf8_lossy(b))

\* A Schema is the sequence of its field types; it is serialized with its
\* length in front.
Schemas == {<<7, 8>>}

serialize(schema) == <<Len(schema)>> \o schema

\* bincode::deserialize: Err when the bytes end before the schema does.
deserialize(b) ==
    IF b = << >> \/ Len(b) - 1 < b[1]
    THEN [ok |-> FALSE]
    ELSE [ok |-> TRUE, schema |-> SubSeq(b, 2, b[1] + 1)]

\* The records a node's worker persists.
commit_record(source, seq) ==
    [key |-> <<SOURCE_ID_IDENTIFIER>> \o as_bytes(source), value |-> to_be_bytes(seq, 8)]

schema_record(tag, port, schema) ==
    [key |-> <<tag>> \o to_be_bytes(port, 2), value |-> serialize(schema)]

\* An environment file: absent, present but failing to open, or open with
\* the records of its checkpoint database.
NoEnv == [state |-> "missing", db |-> EmptyMap]

put(env, rec) == [state |-> "open", db |-> Put(env.db, rec.key, rec.value)]

\* The order in which LMDB compares keys.
RECURSIVE LexLess(_, _)
LexLess(a, b) ==
    IF a = << >> THEN b # << >>
    ELSE IF b = << >> THEN FALSE
    ELSE IF a[1] # b[1] THEN a[1] < b[1]
    ELSE LexLess(Tail(a), Tail(b))

\* cur.first(), cur.next(): the keys in order.
RECURSIVE Cursor(_)
Cursor(keys) ==
    IF keys = {} THEN << >>
    ELSE LET k == CHOOSE k \in keys : \A o \in keys \ {k} : LexLess(k, o)
         IN  <<k>> \o Cursor(keys \ {k})

\* CheckpointMetadata
CheckpointMetadata(commits, input, output) ==
    [commits |-> commits, input_schemas |-> input, output_schemas |-> output]

\* What get_node_checkpoint_metadata comes to: Ok(CheckpointMetadata),
\* Err(ExecutionError), or the panic of an unwrap.
OkMeta(m) == [outcome |-> "Ok", meta |-> m]

ErrMeta(e) == [outcome |-> "Err", err |-> e]

Panicked == [outcome |-> "panic"]

\* An INPUT_SCHEMA record is put into output_schemas (not what the code does).
read_record_swapped(key, value, m) ==
    CASE key[1] = SOURCE_ID_IDENTIFIER ->
            IF Len(value) # 8 THEN Panicked
            ELSE OkMeta([m EXCEPT !.commits =
                            Put(@, from_utf8_lossy(Tail(key)), from_be_bytes(value))])
      [] key[1] \in {OUTPUT_SCHEMA_IDENTIFIER, INPUT_SCHEMA_IDENTIFIER} ->
            IF Len(Tail(key)) # 2 THEN ErrMeta(ResAt("InvalidPortHandle", 0))
            ELSE IF ~deserialize(value).ok THEN ErrMeta(Res("DeserializationError"))
            ELSE OkMeta([m EXCEPT !.output_schemas =
                            Put(@, from_be_bytes(Tail(key)), deserialize(value).schema)])
      [] OTHER -> ErrMeta(Res("InvalidRecord"))

\* One turn of the cursor loop: the match on the tag byte of the key.
read_record(key, value, m) ==
    CASE key[1] = SOURCE_ID_IDENTIFIER ->
            \* value.1.try_into().unwrap()
            IF Len(value) # 8 THEN Panicked
            ELSE OkMeta([m EXCEPT !.commits =
                            Put(@, from_utf8_lossy(Tail(key)), from_be_bytes(value))])
      [] key[1] = OUTPUT_SCHEMA_IDENTIFIER ->
            IF Len(Tail(key)) # 2 THEN ErrMeta(ResAt("InvalidPortHandle", 0))
            ELSE IF ~deserialize(value).ok THEN ErrMeta(Res("DeserializationError"))
            ELSE OkMeta([m EXCEPT !.output_schemas =
                            Put(@, from_be_bytes(Tail(key)), deserialize(value).schema)])
      [] key[1] = INPUT_SCHEMA_IDENTIFIER ->
            IF Len(Tail(key)) # 2 THEN ErrMeta(ResAt("InvalidPortHandle", 0))
            ELSE IF ~deserialize(value).ok THEN ErrMeta(Res("DeserializationError"))
            ELSE OkMeta([m EXCEPT !.input_schemas =
                            Put(@, from_be_bytes(Tail(key)), deserialize(value).schema)])
      [] OTHER -> ErrMeta(Res("InvalidRecord"))

\* The cursor loop over the records that are left.
RECURSIVE read_records(_, _, _)
read_records(keys, db, m) ==
    IF keys = << >> THEN OkMeta(m)
    ELSE LET r == read_record(Head(keys), db[Head(keys)], m)
         IN  IF r.outcome = "Ok" THEN read_records(Tail(keys), db, r.meta) ELSE r

\* A missing env reads as a node that has persisted nothing (not what the
\* code does).
get_node_checkpoint_metadata_lenient(env, name) ==
    OkMeta(CheckpointMetadata(EmptyMap, EmptyMap, EmptyMap))

get_node_checkpoint_metadata(env, name) ==
    IF env.state = "missing" THEN ErrMeta(ResOf("InvalidCheckpointState", name))
    ELSE IF env.state = "unreadable" THEN ErrMeta(Res("InternalDatabaseError"))
    ELSE IF DOMAIN env.db = {} THEN ErrMeta(Res("InvalidRecord"))
    ELSE read_records(Cursor(DOMAIN env.db), env.db,
                      CheckpointMetadata(EmptyMap, EmptyMap, EmptyMap))

\* DependencyTreeNode
RECURSIVE get_source_dependency_tree(_, _)
get_source_dependency_tree(curr, d) ==
    LET children == SelectSeq(d.edges, LAMBDA e : e.from.node = curr)
    IN  [handle |-> curr,
         children |-> [k \in 1..Len(children) |->
                          get_source_dependency_tree(children[k].to.node, d)]]

\* Consistency
FullyConsistent(seq) == [kind |-> "FullyConsistent", seq |-> seq]

PartiallyConsistent(res) == [kind |-> "PartiallyConsistent", partitions |-> res]

\* A node without a commit of the source counts with seq 1 (not what the
\* code does).
state_seq_or_one(meta, source_handle, curr) ==
    IF curr \in DOMAIN meta
    THEN IF source_handle \in DOMAIN meta[curr].commits
         THEN meta[curr].commits[source_handle]
         ELSE 1
    ELSE 1

\* The seq of the source that the node has persisted, 0 when it has none.
state_seq_or_zero(meta, source_handle, curr) ==
    IF curr \in DOMAIN meta
    THEN IF source_handle \in DOMAIN meta[curr].commits
         THEN meta[curr].commits[source_handle]
         ELSE 0
    ELSE 0

RECURSIVE get_dependency_tree_consistency_rec(_, _, _, _)
RECURSIVE consistency_of_children(_, _, _, _)
\* A handle already in one of the lists is not pushed again (not what the
\* code does).
get_dependency_tree_consistency_rec_once(meta, source_handle, tree_node, res) ==
    LET seq == state_seq_or_zero(meta, source_handle, tree_node.handle)
        listed == \E q \in DOMAIN res : tree_node.handle \in Range(res[q])
        pushed == IF listed THEN res
                  ELSE Put(res, seq,
                           Append(IF seq \in DOMAIN res THEN res[seq] ELSE << >>,
                                  tree_node.handle))
    IN  consistency_of_children(meta, source_handle, tree_node.children, pushed)

get_dependency_tree_consistency_rec(meta, source_handle, tree_node, res) ==
    LET seq == state_seq_or_zero(meta, source_handle, tree_node.handle)
        pushed == Put(res, seq,
                      Append(IF seq \in DOMAIN res THEN res[seq] ELSE << >>,
                             tree_node.handle))
    IN  consistency_of_children(meta, source_handle, tree_node.children, pushed)

consistency_of_children(meta, source_handle, children, res) ==
    IF children = << >> THEN res
    ELSE consistency_of_children(meta, source_handle, Tail(children),
             get_dependency_tree_consistency_rec(meta, source_handle, Head(children), res))

\* Every source is reported partially consistent (not what the code does).
classify_partial(res) == PartiallyConsistent(res)

\* match res.len()
classify(res) ==
    IF Cardinality(DOMAIN res) = 1
    THEN FullyConsistent(CHOOSE seq \in DOMAIN res : TRUE)
    ELSE PartiallyConsistent(res)

\* The partitions of the dependency tree of one source.
partitions(meta, trees, source) ==
    get_dependency_tree_consistency_rec(meta, trees[source].handle, trees[source], EmptyMap)

get_dependency_tree_consistency(meta, trees) ==
    [source \in DOMAIN trees |-> classify(partitions(meta, trees, source))]

\* ------------------------------------------------- the analysed Dags
\* S -> A, S -> B
CkFanOut ==
    LET d == add_node(add_node(add_node(new_dag, SourceNode, "S"), SinkNode, "A"),
                      SinkNode, "B")
    IN  connect(connect(d, Endpoint("S", 1), Endpoint("A", 1)).dag,
                Endpoint("S", 1), Endpoint("B", 1)).dag

\* S -> A -> B and S -> B: B is reached along two paths
CkShared ==
    LET d == add_node(add_node(add_node(new_dag, SourceNode, "S"), ProcessorNode, "A"),
                      SinkNode, "B")
    IN  connect(connect(connect(d,
            Endpoint("S", 1), Endpoint("A", 1)).dag,
            Endpoint("A", 2), Endpoint("B", 1)).dag,
            Endpoint("S", 1), Endpoint("B", 1)).dag

\* S -> A, T -> A
CkTwoSources ==
    LET d == add_node(add_node(add_node(new_dag, SourceNode, "S"), SourceNode, "T"),
                      SinkNode, "A")
    IN  connect(connect(d, Endpoint("S", 1), Endpoint("A", 1)).dag,
                Endpoint("T", 1), Endpoint("A", 1)).dag

\* S -> A twice: two edges between the same endpoints
CkParallel ==
    LET d == add_node(add_node(new_dag, SourceNode, "S"), SinkNode, "A")
    IN  connect(connect(d, Endpoint("S", 1), Endpoint("A", 1)).dag,
                Endpoint("S", 1), Endpoint("A", 1)).dag

CkDags == {CkFanOut, CkShared, CkTwoSources, CkParallel}

CkNodes == DOMAIN built.nodes

Sources(d) == {h \in DOMAIN d.nodes : d.nodes[h].t = "Source"}

RECURSIVE TreeNodes(_)
TreeNodes(t) == {t.handle} \cup UNION {TreeNodes(t.children[k]) : k \in 1..Len(t.children)}

\* The sources a node receives operations of, itself included.
SourcesOf(n) ==
    {s \in Sources(built) : n \in TreeNodes(get_source_dependency_tree(s, built))}

\* The sequence numbers the workers commit.
Seqs == {9, 10}

\* Records no worker writes: an unknown tag byte, before and after the other
\* keys; a commit whose value is one byte long; a schema whose port is one
\* byte long; a schema cut short; a commit whose handle is not UTF-8.
CorruptRecords ==
    {[key |-> <<0>>, value |-> << >>],
     [key |-> <<4>>, value |-> << >>],
     [key |-> <<SOURCE_ID_IDENTIFIER, 83>>, value |-> <<10>>],
     [key |-> <<OUTPUT_SCHEMA_IDENTIFIER, 1>>, value |-> serialize(<<7, 8>>)],
     [key |-> <<INPUT_SCHEMA_IDENTIFIER, 0, 1>>, value |-> <<5>>],
     [key |-> <<SOURCE_ID_IDENTIFIER, 255>>, value |-> to_be_bytes(10, 8)]}

Ports(n, dir) ==
    IF dir = "input"
    THEN (IF "input_ports" \in DOMAIN built.nodes[n] THEN Range(built.nodes[n].input_ports) ELSE {})
    ELSE (IF "output_ports" \in DOMAIN built.nodes[n] THEN Range(built.nodes[n].output_ports) ELSE {})

\* ------------------------------------------- persisting the checkpoints
\* The worker of node n commits: the seq of a source is stored in its env.
StoreCommit(n) ==
    /\ ck_pc = "run"
    /\ writes < MaxWrites
    /\ disk[n].state # "unreadable"
    /\ \E source \in SourcesOf(n), seq \in Seqs :
          /\ disk' = [disk EXCEPT ![n] = put(@, commit_record(source, seq))]
          /\ written' = [written EXCEPT ![n].commits = Put(@, source, seq)]
    /\ writes' = writes + 1
    /\ UNCHANGED <<execVars, builderVars, aggVars, disk0, ck_pc, metadata, removed, deps_trees,
                   consistency, stack>>

\* The worker of node n stores the schema of one of its ports.
StoreSchema(n) ==
    /\ ck_pc = "run"
    /\ writes < MaxWrites
    /\ disk[n].state # "unreadable"
    /\ \E dir \in {"input", "output"}, schema \in Schemas :
       \E port \in Ports(n, dir) :
          /\ disk' = [disk EXCEPT ![n] = put(@, schema_record(
                         IF dir = "input" THEN INPUT_SCHEMA_IDENTIFIER
                         ELSE OUTPUT_SCHEMA_IDENTIFIER, port, schema))]
          /\ written' = IF dir = "input"
                        THEN [written EXCEPT ![n].input_schemas = Put(@, port, schema)]
                        ELSE [written EXCEPT ![n].output_schemas = Put(@, port, schema)]
    /\ writes' = writes + 1
    /\ UNCHANGED <<execVars, builderVars, aggVars, disk0, ck_pc, metadata, removed, deps_trees,
                   consistency, stack>>

\* The env of node n is damaged: a record no worker writes gets into its
\* checkpoint database, the env is created with an empty checkpoint database,
\* or the file no longer opens.
Damage(n) ==
    /\ ck_pc = "run"
    /\ writes < MaxWrites
    /\ disk[n].state # "unreadable"
    /\ \/ \E rec \in CorruptRecords : disk' = [disk EXCEPT ![n] = put(@, rec)]
       \/ /\ disk[n] = NoEnv
          /\ disk' = [disk EXCEPT ![n].state = "open"]
       \/ disk' = [disk EXCEPT ![n].state = "unreadable"]
    /\ written' = [written EXCEPT ![n].damaged = TRUE]
    /\ writes' = writes + 1
    /\ UNCHANGED <<execVars, builderVars, aggVars, disk0, ck_pc, metadata, removed, deps_trees,
                   consistency, stack>>

\* ------------------------------------------------ CheckpointMetadataReader
\* The env of a node whose read failed is left in place (not what the code
\* does).
get_checkpoint_metadata_keep(envs, first, panics) ==
    LET read == [n \in first |-> get_node_checkpoint_metadata(envs[n], n)]
        failed == {n \in first : read[n].outcome = "Err"}
    IN  [outcome |-> IF panics THEN "panic" ELSE "Ok",
         all |-> [n \in first \ failed |-> read[n].meta],
         envs |-> envs,
         removed |-> {}]

\* get_checkpoint_metadata: the loop over dag.nodes, a HashMap, reads the
\* nodes in no particular order. The nodes in `first` are read, then node
\* `last` (if any) is read and panics. An Ok is inserted into all, an Err has
\* LmdbEnvironmentManager::remove take the node's env away.
get_checkpoint_metadata(envs, first, panics) ==
    LET read == [n \in first |-> get_node_checkpoint_metadata(envs[n], n)]
        failed == {n \in first : read[n].outcome = "Err"}
    IN  [outcome |-> IF panics THEN "panic" ELSE "Ok",
         all |-> [n \in first \ failed |-> read[n].meta],
         envs |-> [n \in DOMAIN envs |-> IF n \in failed THEN NoEnv ELSE envs[n]],
         removed |-> failed]

\* The nodes whose read panics.
Panicking(envs) ==
    {n \in DOMAIN envs : get_node_checkpoint_metadata(envs[n], n).outcome = "panic"}

\* CheckpointMetadataReader::new: get_checkpoint_metadata, and on its Ok the
\* dependency tree of every source.
ReaderNew ==
    /\ ck_pc = "run"
    /\ disk0' = disk
    /\ \E r \in IF Panicking(disk) = {}
                THEN {get_checkpoint_metadata(disk, CkNodes, FALSE)}
                ELSE {get_checkpoint_metadata(disk, first, TRUE) :
                         first \in SUBSET (CkNodes \ Panicking(disk))} :
          /\ disk' = r.envs
          /\ removed' = r.removed
          /\ IF r.outcome = "Ok"
             THEN /\ metadata' = r.all
                  /\ deps_trees' = [src \in Sources(built) |->
                                       get_source_dependency_tree(src, built)]
                  /\ ck_pc' = "ready"
             ELSE /\ ck_pc' = "panic"
                  /\ UNCHANGED <<metadata, deps_trees>>
    /\ UNCHANGED <<execVars, builderVars, aggVars, writes, written, consistency, stack>>

\* get_dependency_tree_consistency is called on the reader.
Classify ==
    /\ ck_pc = "ready"
    /\ consistency' = get_dependency_tree_consistency(metadata, deps_trees)
    /\ ck_pc' = "done"
    /\ UNCHANGED <<execVars, builderVars, aggVars, disk, writes, written, disk0, metadata, removed,
                   deps_trees, stack>>

CkInit ==
    /\ InitExec({Short(LinearDag)})
    /\ built \in CkDags
    /\ call = [op |-> "new", result |-> Unit]
    /\ disk = [n \in CkNodes |-> NoEnv]
    /\ writes = 0
    /\ written = [n \in CkNodes |->
                    [commits |-> EmptyMap, input_schemas |-> EmptyMap,
                     output_schemas |-> EmptyMap, damaged |-> FALSE]]
    /\ disk0 = EmptyMap
    /\ ck_pc = "run"
    /\ metadata = EmptyMap
    /\ removed = {}
    /\ deps_trees = EmptyMap
    /\ consistency = EmptyMap
    /\ stack = << >>
    /\ AggIdle

CkNext ==
    \/ \E n \in CkNodes : StoreCommit(n)
    \/ \E n \in CkNodes : StoreSchema(n)
    \/ \E n \in CkNodes : Damage(n)
    \/ ReaderNew
    \/ Classify

CheckpointSpec == CkInit /\ [][CkNext]_vars

\* ------------------------------------------ building the dependency trees
\* The deepest recursion of get_source_dependency_tree that is followed.
MaxDepth == 4

\* The nodes of the Dag under construction when its edges are added: a source
\* and two processors.
TreeBase ==
    add_node(add_node(add_node(new_dag, SourceNode, "a"), ProcessorNode, "n/a"),
             ProcessorNode, "n/b")

\* One invocation of get_source_dependency_tree: curr, and the children the
\* for loop has still to visit.
Frame(handle, d) ==
    [curr |-> [handle |-> handle, children |-> << >>],
     children |-> SelectSeq(d.edges, LAMBDA e : e.from.node = handle)]

\* connect is called on the Dag before it is handed to the reader.
TreeConnect ==
    /\ ck_pc = "run"
    /\ Connect

\* CheckpointMetadataReader::new up to its loop over the sources.
ReaderBegin ==
    /\ ck_pc = "run"
    /\ Panicking(disk) = {}
    /\ LET r == get_checkpoint_metadata(disk, CkNodes, FALSE)
       IN  /\ disk0' = disk
           /\ disk' = r.envs
           /\ removed' = r.removed
           /\ metadata' = r.all
           /\ ck_pc' = IF Sources(built) = {} THEN "ready" ELSE "trees"
    /\ UNCHANGED <<execVars, builderVars, aggVars, writes, written, deps_trees, consistency, stack>>

\* new's loop takes the next source and calls get_source_dependency_tree on
\* its root.
TreeRoot(src) ==
    /\ ck_pc = "trees"
    /\ stack = << >>
    /\ src \notin DOMAIN deps_trees
    /\ stack' = <<Frame(src, built)>>
    /\ UNCHANGED <<execVars, builderVars, aggVars, disk, writes, written, disk0, ck_pc, metadata,
                   removed, deps_trees, consistency>>

\* The for loop of the innermost invocation takes its next child and calls
\* get_source_dependency_tree on it.
TreeCall ==
    /\ stack # << >>
    /\ Len(stack) < MaxDepth
    /\ LET top == stack[Len(stack)]
       IN  /\ top.children # << >>
           /\ stack' = Append([stack EXCEPT ![Len(stack)].children = Tail(top.children)],
                              Frame(Head(top.children).to.node, built))
    /\ UNCHANGED <<execVars, builderVars, aggVars, disk, writes, written, disk0, ck_pc, metadata,
                   removed, deps_trees, consistency>>

\* The innermost invocation has visited all its children and returns; its
\* caller pushes the node onto curr.children.
TreeReturn ==
    /\ Len(stack) > 1
    /\ LET top == stack[Len(stack)]
           below == Len(stack) - 1
       IN  /\ top.children = << >>
           /\ stack' = [SubSeq(stack, 1, below) EXCEPT
                           ![below].curr.children = Append(@, top.curr)]
    /\ UNCHANGED <<execVars, builderVars, aggVars, disk, writes, written, disk0, ck_pc, metadata,
                   removed, deps_trees, consistency>>

\* The invocation on a root returns and new inserts the tree; after the last
\* source new returns the reader.
TreeInsert ==
    /\ Len(stack) = 1
    /\ stack[1].children = << >>
    /\ deps_trees' = Put(deps_trees, stack[1].curr.handle, stack[1].curr)
    /\ stack' = << >>
    /\ ck_pc' = IF Sources(built) \subseteq DOMAIN deps_trees' THEN "ready" ELSE "trees"
    /\ UNCHANGED <<execVars, builderVars, aggVars, disk, writes, written, disk0, metadata, removed,
                   consistency>>

TreeInit ==
    /\ InitExec({Short(LinearDag)})
    /\ built = TreeBase
    /\ call = [op |-> "new", result |-> Unit]
    /\ disk = [n \in CkNodes |-> NoEnv]
    /\ writes = 0
    /\ written = [n \in CkNodes |->
                    [commits |-> EmptyMap, input_schemas |-> EmptyMap,
                     output_schemas |-> EmptyMap, damaged |-> FALSE]]
    /\ disk0 = EmptyMap
    /\ ck_pc = "run"
    /\ metadata = EmptyMap
    /\ removed = {}
    /\ deps_trees = EmptyMap
    /\ consistency = EmptyMap
    /\ stack = << >>
    /\ AggIdle

TreeNext ==
    \/ TreeConnect
    \/ ReaderBegin
    \/ \E src \in Sources(built) : TreeRoot(src)
    \/ TreeCall
    \/ TreeReturn
    \/ TreeInsert
    \/ Classify

TreeSpec == TreeInit /\ [][TreeNext]_vars

\* ------------------------------------------- aggregator.rs: update_map
\* The longest slice of fields handed to update_map.
MaxFields == 2

\* How many calls of update_map are followed.
MaxCalls == 2

\* Field::Null, and the other fields.
Null == "Null"

Fields == {Null, "x", "y"}

\* A u64 is kept as its eight big-endian bytes.
u64(v) == to_be_bytes(v, 8)

u64_MAX == [k \in 1..8 |-> 255]

\* The sum of two equal-length big-endian numbers and a carry, the carry out
\* of the first byte dropped.
RECURSIVE add_bytes(_, _, _)
add_bytes(a, b, carry) ==
    IF a = << >> THEN << >>
    ELSE LET sum == a[Len(a)] + b[Len(b)] + carry
         IN  Append(add_bytes(SubSeq(a, 1, Len(a) - 1), SubSeq(b, 1, Len(b) - 1),
                              sum \div 256),
                    sum % 256)

\* u64::wrapping_add
wrapping_add(a, b) == add_bytes(a, b, 0)

\* u64::wrapping_sub: a + !b + 1 modulo 2^64
wrapping_sub(a, b) == add_bytes(a, [k \in 1..Len(b) |-> 255 - b[k]], 1)

\* The body of the for loop, for one field.
update_field(field, val_delta, decr, counts) ==
    IF field = Null THEN counts
    ELSE LET prev_count == IF field \in DOMAIN counts THEN counts[field] ELSE u64(0)
             new_count == IF decr THEN wrapping_sub(prev_count, val_delta)
                          ELSE wrapping_add(prev_count, val_delta)
         IN  IF LexLess(new_count, u64(1))
             THEN [f \in (DOMAIN counts) \ {field} |-> counts[f]]
             ELSE Put(counts, field, new_count)

RECURSIVE update_map(_, _, _, _)
update_map(fields, val_delta, decr, counts) ==
    IF fields = << >> THEN counts
    ELSE update_map(Tail(fields), val_delta, decr,
                    update_field(Head(fields), val_delta, decr, counts))

\* The slices of fields and the deltas update_map is called with.
FieldSlices == UNION {[1..n -> Fields] : n \in 1..MaxFields}

Deltas == {u64(1), u64_MAX}

\* An aggregator calls update_map on its field_map.
UpdateMap ==
    /\ calls < MaxCalls
    /\ \E fields \in FieldSlices, val_delta \in Deltas, decr \in BOOLEAN :
          /\ field_map' = update_map(fields, val_delta, decr, field_map)
          /\ update' = [fields |-> fields, val_delta |-> val_delta, decr |-> decr,
                        before |-> field_map]
    /\ calls' = calls + 1
    /\ UNCHANGED <<execVars, builderVars, ckVars>>

AggInit ==
    /\ InitExec({Short(LinearDag)})
    /\ built = new_dag
    /\ call = [op |-> "new", result |-> Unit]
    /\ CkIdle
    /\ AggIdle

AggNext == UpdateMap

AggSpec == AggInit /\ [][AggNext]_vars

\* ---------------------------------------------------------------- helpers
Last(s) == s[Len(s)]

\* The messages node n handed to its forwarder for port p, in order.
PortStream(n, p) ==
    LET on_port == SelectSeq(emitted[n], LAMBDA e : e[1] = p)
    IN  [k \in 1..Len(on_port) |-> on_port[k][2]]

DataOps(msgs) == SelectSeq(msgs, IsDataOp)

AllDone == \A n \in Nodes : pc[n] = "done"

AllSourcesReturned == \A n \in NodesOf("Source") : pc[n] = "done"

\* ================================================================= claims
\* C1  Schema-before-data: a processor or sink worker has called process() for
\* a message of one of its input channels only if input_schemas holds a schema
\* for every declared input port of the node.
C1_SchemaBeforeData ==
    \A n \in Nodes : \A c \in ReceiverChans(n) :
        proc_log[c] # << >> =>
            \A k \in 1..Len(dag.input_ports[n]) : dag.input_ports[n][k] \in input_schemas[n]

\* The two-port processor of the fan-in DAG has processed ops from both inputs.
C1_Witness ==
    /\ dag.name = "fanin"
    /\ proc_log[1] # << >>
    /\ proc_log[2] # << >>

\* C2  Termination propagation: once every source worker has returned, every
\* processor and sink worker eventually exits and start eventually returns.
C2_TerminationPropagates ==
    AllSourcesReturned ~> (AllDone /\ main_pc = "done")

\* A source returned without sending Terminate, and still every worker has
\* exited and start has returned.
C2_Witness ==
    /\ AllDone
    /\ main_pc = "done"
    /\ \E n \in NodesOf("Source") : \E c \in SenderChans(n) :
          Terminate \notin Range(sent[c])
    /\ \E n \in NodesOf("Source") : \E c \in SenderChans(n) :
          Terminate \in Range(sent[c])

\* C3  When a source worker has returned, a Terminate has been put on every
\* outgoing edge of the source, whether or not the source called send_term.
C3_TerminateOnSourceReturn ==
    \A n \in NodesOf("Source") :
        pc[n] = "done" => \A c \in SenderChans(n) : Terminate \in Range(sent[c])

\* C4  FIFO per edge: the messages received from an edge's channel, followed by
\* those still buffered in it, are exactly the messages sent on it, in order.
C4_FifoPerEdge ==
    \A c \in Channels : sent[c] = recvd[c] \o chan[c]

\* An edge has delivered two messages while a later one waits behind them.
C4_Witness ==
    \E c \in Channels : Len(recvd[c]) >= 2 /\ Len(chan[c]) >= 2

\* C5  Every edge has one channel of its own, held once by the sender index
\* under the edge's from endpoint and once by the receiver index under its to
\* endpoint, and no channel ever buffers more than channel_buf_sz messages.
C5_BoundedChannelPerEdge ==
    /\ \A c \in Channels : Len(chan[c]) <= channel_buf_sz
    /\ \A c \in Channels :
          /\ dag.edges[c].from.node \in DOMAIN senders
          /\ dag.edges[c].to.node \in DOMAIN receivers
          /\ \A n \in DOMAIN senders : \A p \in DOMAIN senders[n] :
                Cardinality({k \in 1..Len(senders[n][p]) : senders[n][p][k] = c})
                    = IF n = dag.edges[c].from.node /\ p = dag.edges[c].from.port THEN 1 ELSE 0
          /\ \A n \in DOMAIN receivers : \A p \in DOMAIN receivers[n] :
                Cardinality({k \in 1..Len(receivers[n][p]) : receivers[n][p][k] = c})
                    = IF n = dag.edges[c].to.node /\ p = dag.edges[c].to.port THEN 1 ELSE 0

\* A channel is full and a forwarder waits with its next message for it.
C5_Witness ==
    \E c \in Channels : Len(chan[c]) = channel_buf_sz /\ SendWaits(c) /\ rx_alive[c]

\* The process() calls a stream of messages asks for: <<port, seq, op>> for
\* each data message, in order.
Expected(port, msgs) ==
    LET data == DataOps(msgs)
    IN  [k \in 1..Len(data) |->
            <<port, data[k].seq,
              CASE data[k].type = "Insert" -> [type |-> "Insert", new |-> data[k].new]
                [] data[k].type = "Delete" -> [type |-> "Delete", old |-> data[k].old]
                [] data[k].type = "Update" ->
                     [type |-> "Update", old |-> data[k].old, new |-> data[k].new]>>]

\* The source began with a SchemaUpdate on its port.
SchemaFirst(n) == emitted[n] # << >> /\ emitted[n][1][2].type = "SchemaUpdate"

\* The source ended with the Terminate of send_term.
TerminateLast(n) == emitted[n] # << >> /\ Last(emitted[n])[2] = Terminate

\* C6  Backpressure without loss: in the linear pipeline with channel_buf_sz = 1,
\* when the source began with its schema and no operator failed or withheld an
\* op, a sink that has exited has processed every data op the source sent,
\* once each and in order: as many process() calls as ops sent.
C6_BackpressureNoLoss ==
    (/\ dag.name = "linear"
     /\ channel_buf_sz = 1
     /\ SchemaFirst("S1")
     /\ ~deviated
     /\ pc["S1"] = "done"
     /\ pc["K1"] = "done")
    => /\ proc_log[2] = Expected(DEFAULT_PORT_HANDLE, PortStream("S1", DEFAULT_PORT_HANDLE))
       /\ Len(proc_log[2]) = src_seq["S1"]

\* The sink has exited after the Terminate, having processed MaxOps ops that
\* went through channels of capacity 1.
C6_Witness ==
    /\ dag.name = "linear"
    /\ channel_buf_sz = 1
    /\ SchemaFirst("S1") /\ TerminateLast("S1")
    /\ ~deviated
    /\ result["K1"] = Ok
    /\ Len(proc_log[2]) = MaxOps
    /\ src_seq["S1"] = MaxOps

\* C7  Linear pipeline: when the source has emitted its SchemaUpdate, data ops
\* with seq 1..n and then Terminate, and no operator failed or withheld an op,
\* then once start has returned the sink's process() has observed exactly those
\* (seq, op) pairs in that order, the processor and the sink have returned Ok
\* and start has returned Ok.
C7_LinearPipeline ==
    (/\ dag.name = "linear"
     /\ SchemaFirst("S1") /\ TerminateLast("S1")
     /\ ~deviated
     /\ main_pc = "done")
    => /\ proc_log[2] = Expected(DEFAULT_PORT_HANDLE, PortStream("S1", DEFAULT_PORT_HANDLE))
       /\ \A k \in 1..Len(proc_log[2]) : proc_log[2][k][2] = k
       /\ result["P"] = Ok
       /\ result["K1"] = Ok
       /\ start_result = Ok

\* start has returned Ok after the sink saw MaxOps ops, an Update among them.
C7_Witness ==
    /\ dag.name = "linear"
    /\ SchemaFirst("S1") /\ TerminateLast("S1")
    /\ ~deviated
    /\ main_pc = "done"
    /\ start_result = Ok
    /\ Len(proc_log[2]) = MaxOps
    /\ \E k \in 1..Len(proc_log[2]) : proc_log[2][k][3].type = "Update"

\* C8  Fan-out: every edge leaving an output port carries the messages sent
\* on that port, in the order sent: what its receiver has taken is a prefix of
\* the port's stream at all times, it is the whole stream once the receiver has
\* taken the Terminate, and once the sending worker has returned Ok the whole
\* stream has been put on every edge of the port.
C8_FanOut ==
    \A c \in Channels :
        LET from == dag.edges[c].from
            stream == PortStream(from.node, from.port)
        IN  /\ IsPrefix(recvd[c], stream)
            /\ Terminate \in Range(recvd[c]) => recvd[c] = stream
            /\ result[from.node] = Ok => sent[c] = stream

\* Both sinks of the fan-out DAG have taken the schema, MaxOps ops and the
\* Terminate the source sent on its one port.
C8_Witness ==
    /\ dag.name = "fanout"
    /\ result["K1"] = Ok /\ result["K2"] = Ok
    /\ Len(recvd[1]) = MaxOps + 2
    /\ recvd[1] = recvd[2]
    /\ recvd[1] = PortStream("S1", DEFAULT_PORT_HANDLE)

\* C9  Fan-in: with two sources feeding one processor, each sending its
\* SchemaUpdate before its data ops, the processor never fails with
\* SchemaNotInitialized, and the ops of each source reach process() in that
\* source's send order.
C9_FanIn ==
    (/\ dag.name = "fanin"
     /\ SchemaFirst("S1")
     /\ SchemaFirst("S2"))
    => /\ result["P"].kind # "SchemaNotInitialized"
       /\ IsPrefix(proc_log[1], Expected(1, PortStream("S1", DEFAULT_PORT_HANDLE)))
       /\ IsPrefix(proc_log[2], Expected(2, PortStream("S2", DEFAULT_PORT_HANDLE)))

\* What holds of a worker once it has taken a Terminate, whatever its send of
\* Terminate comes to: it takes no further message; a sink has returned Ok and
\* forwarded nothing; a processor still running has only Terminates left to send.
AfterTerminate(n) ==
    /\ ~recv_after_term[n]
    /\ dag.nodes[n] = "Sink" =>
          /\ pc[n] = "done"
          /\ result[n] = Ok
          /\ emitted[n] = << >>
    /\ (dag.nodes[n] = "Processor" /\ pc[n] # "done") =>
          \A k \in 1..Len(outbox[n]) : outbox[n][k].msg = Terminate

\* The processor has put a Terminate last on every output edge.
TerminateOnAllOutputs(n) ==
    \A c \in SenderChans(n) : sent[c] # << >> /\ Last(sent[c]) = Terminate

\* C10 (as stated)  On receiving Terminate on any input, a processor worker
\* sends Terminate on every one of its output edges and then returns Ok without
\* processing any further message; a sink worker returns Ok immediately
\* without forwarding anything.
C10_OnTerminateAlwaysOk ==
    \A n \in Nodes :
        got_term[n] =>
            /\ AfterTerminate(n)
            /\ (dag.nodes[n] = "Processor" /\ pc[n] = "done") =>
                  /\ result[n] = Ok
                  /\ TerminateOnAllOutputs(n)

\* C10 (amended)  On receiving Terminate on any input, a processor worker
\* sends Terminate on its output edges and takes no further message; it
\* returns Ok once a Terminate is on every output edge, or returns the send
\* error when the receiver of one of its output edges is gone. A sink worker
\* returns Ok immediately without forwarding anything.
C10_OnTerminate ==
    \A n \in Nodes :
        got_term[n] =>
            /\ AfterTerminate(n)
            /\ (dag.nodes[n] = "Processor" /\ pc[n] = "done") =>
                  \/ /\ result[n] = Ok
                     /\ TerminateOnAllOutputs(n)
                  \/ /\ result[n] = Res("SendError")
                     /\ \E c \in SenderChans(n) : ~rx_alive[c]

\* A processor took the Terminate, sent it on and returned Ok, and the sink
\* after it took that Terminate and returned Ok.
C10_Witness ==
    /\ dag.name = "linear"
    /\ got_term["P"] /\ pc["P"] = "done" /\ result["P"] = Ok
    /\ TerminateOnAllOutputs("P")
    /\ got_term["K1"] /\ result["K1"] = Ok

\* This step is worker n taking a data op off one of its channels while its
\* schema_initialized flag is still false.
DataOpBeforeReady(n) ==
    /\ dag.nodes[n] \in {"Processor", "Sink"}
    /\ ~schema_initialized[n]
    /\ \E c \in ReceiverChans(n) :
          /\ Len(recvd'[c]) = Len(recvd[c]) + 1
          /\ IsDataOp(Last(recvd'[c]))

\* C11  A processor or sink worker that receives a data op (Insert, Delete or
\* Update) while it has not reached Ready returns SchemaNotInitialized, and
\* the operator's process() is not called for that op.
C11_DataBeforeReady ==
    [][\A n \in Nodes :
          DataOpBeforeReady(n) =>
              /\ pc'[n] = "done"
              /\ result'[n] = Res("SchemaNotInitialized")
              /\ proc_log' = proc_log]_vars

\* The sink of the fan-out DAG took an op before any schema and returned
\* SchemaNotInitialized without a process() call.
C11_Witness ==
    /\ dag.name = "fanout"
    /\ result["K1"] = Res("SchemaNotInitialized")
    /\ IsDataOp(Last(recvd[1]))
    /\ input_schemas["K1"] = {}
    /\ proc_log[1] = << >>

\* ------------------------------------------------- claims about dag.rs
\* e names a node of the map and a port that node declares as output (input).
DeclaredOutput(nodes, e) ==
    /\ e.node \in DOMAIN nodes
    /\ nodes[e.node].t \in {"Source", "Processor"}
    /\ e.port \in Range(nodes[e.node].output_ports)

DeclaredInput(nodes, e) ==
    /\ e.node \in DOMAIN nodes
    /\ nodes[e.node].t \in {"Sink", "Processor"}
    /\ e.port \in Range(nodes[e.node].input_ports)

\* C12  connect(from, to) succeeds exactly when from.node and to.node are both
\* in the node map, from.port is a declared output port of from.node and
\* to.port is a declared input port of to.node; on success it appends exactly
\* the edge (from, to) at the end of dag.edges and changes nothing else.
C12_ConnectSucceedsIff ==
    [][call'.op = "connect" =>
          /\ call'.result = Ok <=>
                (DeclaredOutput(built.nodes, call'.from) /\ DeclaredInput(built.nodes, call'.to))
          /\ call'.result = Ok =>
                /\ built'.edges = Append(built.edges, Edge(call'.from, call'.to))
                /\ built'.nodes = built.nodes]_vars

\* A connect has succeeded on a Dag that already had an edge, and its edge is
\* the last one.
C12_Witness ==
    /\ call.op = "connect"
    /\ call.result = Ok
    /\ Len(built.edges) = 2
    /\ built.edges[2] = Edge(call.from, call.to)
    /\ built.edges[1] # built.edges[2]

\* The kind of construction failure an error returned by connect stands for.
FailureKind(err) ==
    CASE err.fmt = "Unable to find source node with id = {}" -> "UnknownNode"
      [] err.fmt = "Invalid node type" -> "InvalidPortDirection"
      [] err.fmt = "Unable to connect port" -> "UnknownPort"

IsSink(nodes, h) == h \in DOMAIN nodes /\ nodes[h].t = "Sink"

IsSource(nodes, h) == h \in DOMAIN nodes /\ nodes[h].t = "Source"

\* The node is known, may have ports of the direction, and lacks this one.
LacksOutput(nodes, e) ==
    /\ e.node \in DOMAIN nodes
    /\ ~IsSink(nodes, e.node)
    /\ e.port \notin Range(nodes[e.node].output_ports)

LacksInput(nodes, e) ==
    /\ e.node \in DOMAIN nodes
    /\ ~IsSource(nodes, e.node)
    /\ e.port \notin Range(nodes[e.node].input_ports)

\* C13 (as stated)  A failing connect reports the kind of failure and leaves
\* the DAG unchanged: UnknownNode when from.node or to.node is not in the node
\* map, InvalidPortDirection when from.node is a sink or to.node is a source,
\* UnknownPort when the port is not declared by the node; in every failing
\* case no edge is appended and the node map is unchanged.
C13_FailureKindByCase ==
    [][(call'.op = "connect" /\ call'.result # Ok) =>
          LET nodes == built.nodes
              from == call'.from
              to == call'.to
              kind == FailureKind(call'.result)
          IN  /\ (from.node \notin DOMAIN nodes \/ to.node \notin DOMAIN nodes)
                    => kind = "UnknownNode"
              /\ (IsSink(nodes, from.node) \/ IsSource(nodes, to.node))
                    => kind = "InvalidPortDirection"
              /\ (LacksOutput(nodes, from) \/ LacksInput(nodes, to))
                    => kind = "UnknownPort"
              /\ built' = built]_vars

\* The failure connect finds first, in the order of its checks.
FirstFailure(nodes, from, to) ==
    IF from.node \notin DOMAIN nodes \/ to.node \notin DOMAIN nodes THEN "UnknownNode"
    ELSE IF IsSink(nodes, from.node) THEN "InvalidPortDirection"
    ELSE IF LacksOutput(nodes, from) THEN "UnknownPort"
    ELSE IF IsSource(nodes, to.node) THEN "InvalidPortDirection"
    ELSE IF LacksInput(nodes, to) THEN "UnknownPort"
    ELSE "none"

\* C13 (amended)  A failing connect reports the first failure it finds, in
\* this order, and leaves the DAG unchanged: UnknownNode (naming from.node, or
\* else to.node) when one of them is not in the node map; InvalidPortDirection
\* when from.node is a sink; UnknownPort when from.port is not an output port
\* of from.node; InvalidPortDirection when to.node is a source; UnknownPort
\* when to.port is not an input port of to.node.
C13_FirstFailureKind ==
    [][(call'.op = "connect" /\ call'.result # Ok) =>
          /\ FailureKind(call'.result) = FirstFailure(built.nodes, call'.from, call'.to)
          /\ FailureKind(call'.result) = "UnknownNode" =>
                call'.result.arg = IF call'.from.node \notin DOMAIN built.nodes
                                   THEN call'.from.node ELSE call'.to.node
          /\ built' = built]_vars

\* A connect into a source has failed with InvalidPortDirection on a Dag that
\* holds an edge, its from endpoint being a declared output.
C13_Witness ==
    /\ call.op = "connect"
    /\ call.result # Ok
    /\ FailureKind(call.result) = "InvalidPortDirection"
    /\ DeclaredOutput(built.nodes, call.from)
    /\ IsSource(built.nodes, call.to.node)
    /\ built.edges # << >>

\* C14  Edge validity is an invariant of the DAG: after any sequence of
\* add_node, connect and merge calls, every edge in dag.edges has from.node and
\* to.node present in the node map, from.port a declared output port of
\* from.node, to.port a declared input port of to.node, no edge leaving a sink
\* and no edge entering a source.
C14_EdgeValidity ==
    \A k \in 1..Len(built.edges) :
        /\ DeclaredOutput(built.nodes, built.edges[k].from)
        /\ DeclaredInput(built.nodes, built.edges[k].to)

\* C15  No self-loops: after any sequence of add_node, connect and merge
\* calls, dag.edges contains no edge whose from.node equals its to.node.
C15_NoSelfLoops ==
    \A k \in 1..Len(built.edges) : built.edges[k].from.node # built.edges[k].to.node

\* "<namespace>/<handle>"
Prefixed(namespace, handle) == namespace \o "/" \o handle

\* C16  merge(namespace, other) adds every node of other under the handle
\* "<namespace>/<handle>" and appends every edge of other, in other's edge
\* order, with both endpoint node handles prefixed the same way and both ports
\* unchanged; the receiver's existing edges keep their position and content.
C16_MergeRewrites ==
    [][call'.op = "merge" =>
          LET ns == call'.namespace
              other == call'.other
              base == Len(built.edges)
          IN  /\ \A h \in DOMAIN other.nodes :
                    /\ Prefixed(ns, h) \in DOMAIN built'.nodes
                    /\ built'.nodes[Prefixed(ns, h)] = other.nodes[h]
              /\ Len(built'.edges) = base + Len(other.edges)
              /\ \A k \in 1..base : built'.edges[k] = built.edges[k]
              /\ \A k \in 1..Len(other.edges) :
                    built'.edges[base + k] =
                        Edge(Endpoint(Prefixed(ns, other.edges[k].from.node),
                                      other.edges[k].from.port),
                             Endpoint(Prefixed(ns, other.edges[k].to.node),
                                      other.edges[k].to.port))]_vars

\* The two-node Dag has been merged under "n" into a Dag that had an edge of
\* its own: that edge is still first and the rewritten edge follows it.
C16_Witness ==
    /\ call.op = "merge"
    /\ call.other = OtherPipe
    /\ Len(built.edges) = 2
    /\ built.edges[1].from.node = "a"
    /\ built.edges[2] = Edge(Endpoint("n/a", 1), Endpoint("n/b", 1))
    /\ built.nodes["n/a"] = SourceNode
    /\ built.nodes["n/b"] = SinkNode

\* The handles of the receiver that a merge of other under namespace rewrites
\* a handle of other to.
Collisions(self, namespace, other) ==
    {h \in DOMAIN self.nodes : \E o \in DOMAIN other.nodes : h = Prefixed(namespace, o)}

\* C17  merge detects handle collisions: if a rewritten handle
\* "<namespace>/<handle>" of other equals a handle already present in the
\* receiver, merge fails and the receiver's existing node entry is not
\* replaced.
C17_MergeDetectsCollisions ==
    [][(call'.op = "merge" /\ Collisions(built, call'.namespace, call'.other) # {}) =>
          /\ call'.result # Unit
          /\ \A h \in Collisions(built, call'.namespace, call'.other) :
                built'.nodes[h] = built.nodes[h]]_vars

\* C18  add_node(handle, kind) makes the node map hold kind under handle
\* (inserting a new entry or replacing the existing one), leaves every other
\* node entry unchanged, leaves dag.edges unchanged, and never fails.
C18_AddNode ==
    [][call'.op = "add_node" =>
          /\ DOMAIN built'.nodes = DOMAIN built.nodes \cup {call'.handle}
          /\ built'.nodes[call'.handle] = call'.node
          /\ \A h \in DOMAIN built.nodes \ {call'.handle} : built'.nodes[h] = built.nodes[h]
          /\ built'.edges = built.edges
          /\ call'.result = Unit]_vars

\* add_node has put a sink under a handle that an edge leaves: the entry it
\* replaced was a source or a processor.
C18_Witness ==
    /\ call.op = "add_node"
    /\ call.node = SinkNode
    /\ built.nodes[call.handle] = SinkNode
    /\ \E k \in 1..Len(built.edges) : built.edges[k].from.node = call.handle
    /\ \E h \in DOMAIN built.nodes : h # call.handle

\* ------------------------------------------------- claims about start
\* The place of a node's kind in the order start spawns the kinds in.
SpawnRank(n) ==
    CASE dag.nodes[n] = "Sink" -> 1
      [] dag.nodes[n] = "Processor" -> 2
      [] dag.nodes[n] = "Source" -> 3

Spawned(n) == pc[n] # "unspawned"

\* Edge c has its channel: its sending end is indexed under the edge's from
\* endpoint and its receiving end under the to endpoint.
ChannelExists(c) ==
    /\ dag.edges[c].from.node \in DOMAIN senders
    /\ dag.edges[c].from.port \in DOMAIN senders[dag.edges[c].from.node]
    /\ c \in Range(senders[dag.edges[c].from.node][dag.edges[c].from.port])
    /\ dag.edges[c].to.node \in DOMAIN receivers
    /\ dag.edges[c].to.port \in DOMAIN receivers[dag.edges[c].to.node]
    /\ c \in Range(receivers[dag.edges[c].to.node][dag.edges[c].to.port])

\* C19  Startup order: start spawns the workers of all sinks first, then of
\* all processors, then of all sources; no processor worker is spawned before
\* every sink worker, and no source worker before every processor worker;
\* every channel exists before any worker is spawned.
C19_StartupOrder ==
    /\ \A i \in 1..Len(handles) : \A j \in i..Len(handles) :
          SpawnRank(handles[i]) <= SpawnRank(handles[j])
    /\ \A n \in Nodes : Spawned(n) <=> n \in Range(handles)
    /\ \A n \in Nodes : \A m \in Nodes :
          (Spawned(n) /\ SpawnRank(m) < SpawnRank(n)) => Spawned(m)
    /\ (\E n \in Nodes : Spawned(n)) => \A c \in Channels : ChannelExists(c)

\* start has spawned the sink, the processor and both sources of the fan-in
\* DAG and none of them has taken a step yet.
C19_Witness ==
    /\ dag.name = "fanin"
    /\ handles = <<"K1", "P", "S1", "S2">>
    /\ \A n \in Nodes : pc[n] = "init"

\* The nodes start cannot give a receiver map, or a sender map.
MissingInput == {n \in Nodes : dag.nodes[n] \in {"Sink", "Processor"} /\ ReceiverChans(n) = {}}

MissingOutput == {n \in Nodes : dag.nodes[n] \in {"Processor", "Source"} /\ SenderChans(n) = {}}

\* C20  start returns MissingNodeInput(handle) for a sink or processor that
\* has no incoming edge, and MissingNodeOutput(handle) for a processor or
\* source that has no outgoing edge; these cases are reported as an error
\* value from start, never as a panic.
C20_MissingEdgesReported ==
    (main_pc = "done" /\ MissingInput \cup MissingOutput # {}) =>
        \/ /\ start_result.kind = "MissingNodeInput"
           /\ start_result.handle \in MissingInput
        \/ /\ start_result.kind = "MissingNodeOutput"
           /\ start_result.handle \in MissingOutput

\* C21  Pre-start validation aborts before threads spawn: whenever start
\* returns MissingNodeInput or MissingNodeOutput, no worker thread of any node
\* has been spawned.
C21_NoSpawnBeforeValidation ==
    start_result.kind \in {"MissingNodeInput", "MissingNodeOutput"} =>
        /\ handles = << >>
        /\ \A n \in Nodes : ~Spawned(n)

\* start has spawned every node and has returned (or unwound).
JoinEnded == main_pc = "done" /\ spawned = Len(SpawnOrder(dag))

Failed(n) == result[n] \notin {Ok, NoResult}

\* C22 (as stated)  start joins all workers: it returns Ok exactly when every
\* worker returned Ok; when one or more workers fail it returns the error of
\* the first worker to fail, and at the time it returns every spawned worker
\* has been joined.
C22_JoinsAllFirstToFail ==
    JoinEnded =>
        /\ start_result = Ok <=> \A n \in Nodes : result[n] = Ok
        /\ (\E n \in Nodes : Failed(n)) => start_result = result[first_failed]
        /\ joined = Len(handles)
        /\ \A n \in Range(handles) : pc[n] = "done"

\* C22 (amended)  start joins the workers in the order it spawned them and
\* stops at the first one that did not return Ok: it returns Ok exactly when
\* every worker returned Ok, and then all of them have been joined; otherwise
\* it ends with the result of the first failed worker in join order (an error,
\* or that worker's panic), every worker before it having returned Ok, and
\* the workers after it are not joined.
C22_JoinsInOrderShortCircuit ==
    JoinEnded =>
        /\ start_result = Ok <=> \A n \in Nodes : result[n] = Ok
        /\ start_result = Ok => joined = Len(handles)
        /\ start_result # Ok =>
              /\ joined < Len(handles)
              /\ start_result = result[handles[joined + 1]]
              /\ Failed(handles[joined + 1])
              /\ \A j \in 1..joined : result[handles[j]] = Ok

\* In the linear DAG the processor failed first, the sink then lost its
\* channel; start returned the sink's error, having joined nobody, while the
\* source was still running.
C22_Witness ==
    /\ dag.name = "linear"
    /\ JoinEnded
    /\ first_failed = "P"
    /\ start_result = result["K1"]
    /\ start_result # result["P"]
    /\ Failed("K1")
    /\ joined = 0
    /\ pc["S1"] # "done"

\* C23  Any error returned by an operator call (init, update_schema, process)
\* or by the storage layer (env open, txn begin, commit) inside a worker makes
\* that worker return that same error immediately as its result; this
\* includes a processor's update_schema returning Err, which ends the worker
\* with an error value rather than a panic.
C23_ErrorsReturned ==
    \A n \in Nodes :
        call_err[n] # NoResult =>
            /\ pc[n] = "done"
            /\ result[n] = call_err[n]
            /\ result[n] # Res("panic")

\* C24  When an upstream worker drops its sender without sending Terminate,
\* the downstream worker first receives every message still buffered on that
\* edge and then returns SinkReceiverError(index, _) (a sink) or
\* ProcessorReceiverError(index, _) (a processor), where index is the position
\* of that edge's receiver in the worker's flat receiver list: a worker whose
\* result is a receiver error names a position of its list, the sender of the
\* channel at that position is dropped, every message sent on it was received,
\* and Terminate was not among them.
ReceiverErrors == {"SinkReceiverError", "ProcessorReceiverError"}

ReceiverErrorOf(n) ==
    IF dag.nodes[n] = "Sink" THEN "SinkReceiverError" ELSE "ProcessorReceiverError"

FailedEdge(n) == receivers_ls(n)[result[n].index + 1]

TxnEnds == {"commit", "drop", "commit_err"}

Count(log, events) == Cardinality({k \in 1..Len(log) : log[k] \in events})

OpenTxns(log) == Count(log, {"begin"}) - Count(log, TxnEnds)

ProcessCalls(n) ==
    Len(Concat([k \in 1..Len(receivers_ls(n)) |-> proc_log[receivers_ls(n)[k]]]))

StatefulWorker(n) ==
    /\ Stateful(n)
    /\ dag.nodes[n] # "Source"
    /\ n \in DOMAIN receivers

TxnDiscipline(n) ==
    LET log == txn_log[n]
    IN  /\ \A k \in 0..Len(log) : OpenTxns(SubSeq(log, 1, k)) \in {0, 1}
        /\ Count(log, {"process"}) = ProcessCalls(n)
        /\ \A k \in 1..Len(log) :
             /\ log[k] = "process" => (k > 1 /\ log[k - 1] = "begin")
             /\ log[k] = "begin" =>
                    (k < Len(log) => log[k + 1] \in {"init", "process"})
             /\ log[k] = "failed" => (k < Len(log) /\ log[k + 1] = "drop")
             /\ log[k] = "commit" => log[k - 1] \in {"init", "process"}

ReceivesNext(n) ==
    \E k \in 1..Len(receivers_ls(n)) :
        recvd'[receivers_ls(n)[k]] # recvd[receivers_ls(n)[k]]

C25_TransactionDiscipline ==
    /\ [](\A n \in Nodes :
            /\ \A k \in 0..Len(txn_log[n]) : OpenTxns(SubSeq(txn_log[n], 1, k)) \in {0, 1}
            /\ StatefulWorker(n) => TxnDiscipline(n))
    /\ [][\A n \in Nodes :
            (StatefulWorker(n) /\ ReceivesNext(n)) => OpenTxns(txn_log[n]) = 0]_vars

\* The stateful processor and the stateful sink each committed the
\* transaction of init and the transaction of one data operation, and another
\* stateful worker dropped the transaction of a failed process call.
C25_Witness ==
    /\ \E n \in Nodes :
          /\ StatefulWorker(n)
          /\ dag.nodes[n] = "Processor"
          /\ txn_log[n] = <<"begin", "init", "commit", "begin", "process", "commit">>
    /\ \E n \in Nodes :
          /\ StatefulWorker(n)
          /\ dag.nodes[n] = "Sink"
          /\ txn_log[n] = <<"begin", "init", "commit", "begin", "process", "failed", "drop">>

\* ------------------------------------------------ the checkpoint analyzer
\* The nodes of the dependency tree of a source, in the order of the walk: a
\* node and then, edge by edge, what each of its outgoing edges leads to.
RECURSIVE Walk(_)
Walk(n) ==
    LET out == SelectSeq(built.edges, LAMBDA e : e.from.node = n)
    IN  <<n>> \o Concat([k \in 1..Len(out) |-> Walk(out[k].to.node)])

Descendants(s) == Range(Walk(s)) \ {s}

\* The seq of source s that node n has persisted, 0 when it has none.
RecordedSeq(n, s) ==
    IF n \in DOMAIN metadata /\ s \in DOMAIN metadata[n].commits
    THEN metadata[n].commits[s]
    ELSE 0

Analysed == ck_pc = "done"

ReadOf(n) == get_node_checkpoint_metadata(disk0[n], n)

MetadataRead == ck_pc \in {"ready", "done"}

\* C27  Checkpoint-analyzer errors do not abort: get_checkpoint_metadata
\* returns Ok for every Dag and every on-disk state; a node whose env is
\* missing, unreadable or undecodable has its env removed and is absent from
\* the returned metadata map, every node whose checkpoint decodes is present
\* with its decoded commits and schemas, and no other node's env is removed.
C27_AnalyzerNeverAborts ==
    /\ ck_pc # "panic"
    /\ MetadataRead =>
          \A n \in CkNodes :
              IF ReadOf(n).outcome = "Ok"
              THEN /\ n \in DOMAIN metadata
                   /\ metadata[n] = ReadOf(n).meta
                   /\ n \notin removed
                   /\ disk[n] = disk0[n]
              ELSE /\ n \notin DOMAIN metadata
                   /\ n \in removed
                   /\ disk[n] = NoEnv

\* The env holds a record whose tag byte is none of the three.
HasUnknownTag(env) ==
    /\ env.state = "open"
    /\ \E key \in DOMAIN env.db :
          key[1] \notin {SOURCE_ID_IDENTIFIER, OUTPUT_SCHEMA_IDENTIFIER,
                         INPUT_SCHEMA_IDENTIFIER}

\* Node n is in one of the lists of the Consistency of source s.
Listed(n, s) ==
    /\ consistency[s].kind = "PartiallyConsistent"
    /\ \E q \in DOMAIN consistency[s].partitions : n \in Range(consistency[s].partitions[q])

\* Node n counts with seq 0 in the Consistency of source s.
AtZero(n, s) ==
    \/ consistency[s] = FullyConsistent(0)
    \/ /\ consistency[s].kind = "PartiallyConsistent"
       /\ 0 \in DOMAIN consistency[s].partitions
       /\ n \in Range(consistency[s].partitions[0])
       /\ \A q \in DOMAIN consistency[s].partitions \ {0} :
              n \notin Range(consistency[s].partitions[q])

\* C28 (as stated)  A node whose checkpoint DB is corrupt (it holds a record
\* with an unknown tag byte) is omitted from the analysis result: it appears
\* in no partition list of any source's Consistency value.
C28_CorruptNodeOmitted ==
    Analysed =>
        \A n \in CkNodes :
            HasUnknownTag(disk0[n]) => \A s \in Sources(built) : ~Listed(n, s)

\* C28 (amended)  A node whose checkpoint read returns an error (its DB holds
\* a record with an unknown tag byte, say) has its env removed and is left
\* out of the metadata map, and the error does not fail the analysis: only
\* the panic of a read ends it. In the Consistency of every source whose
\* dependency tree holds the node it counts with seq 0.
C28_FailedNodeCountsAsZero ==
    /\ ck_pc = "panic" => \E n \in CkNodes : ReadOf(n).outcome = "panic"
    /\ MetadataRead =>
          \A n \in CkNodes :
              ReadOf(n).outcome = "Err" =>
                  /\ n \notin DOMAIN metadata
                  /\ n \in removed
                  /\ disk[n] = NoEnv
                  /\ Analysed =>
                        \A s \in Sources(built) :
                            n \in Range(Walk(s)) => AtZero(n, s)

\* A's DB holds a record with an unknown tag byte; the analysis is done and
\* A is listed under seq 0 in the partitions of S.
C28_Witness ==
    /\ Analysed
    /\ \E n \in CkNodes, s \in Sources(built) :
          /\ HasUnknownTag(disk0[n])
          /\ ReadOf(n).outcome = "Err"
          /\ Listed(n, s)
          /\ n \in Range(consistency[s].partitions[0])

\* C29  Checkpoint round-trip: for each of the three record kinds, encoding
\* a value per the persisted layout and decoding it with the analyzer gives
\* the value back: a (source handle, seq) pair under SOURCE_ID with
\* big-endian u64 seq lands in commits, a (port, schema) pair with
\* big-endian u16 port under INPUT_SCHEMA in input_schemas and under
\* OUTPUT_SCHEMA in output_schemas.
U16Samples == {0, 1, 255, 256, 258, 65535}

U64Samples == {0, 9, 10, 256, 16777473, 2147483647}

C29_RoundTrip ==
    /\ \A v \in U16Samples :
          /\ Len(to_be_bytes(v, 2)) = 2
          /\ from_be_bytes(to_be_bytes(v, 2)) = v
    /\ \A v \in U64Samples :
          /\ Len(to_be_bytes(v, 8)) = 8
          /\ from_be_bytes(to_be_bytes(v, 8)) = v
    /\ \A h \in CkHandles : from_utf8_lossy(as_bytes(h)) = h
    /\ \A schema \in Schemas \cup {<< >>} : deserialize(serialize(schema)).schema = schema
    /\ MetadataRead =>
          \A n \in CkNodes :
              (disk0[n].state = "open" /\ ~written[n].damaged) =>
                  /\ n \in DOMAIN metadata
                  /\ metadata[n].commits = written[n].commits
                  /\ metadata[n].input_schemas = written[n].input_schemas
                  /\ metadata[n].output_schemas = written[n].output_schemas

\* Node A persisted a commit, an input schema and an output schema, and the
\* analyzer read the three back.
C29_Witness ==
    /\ MetadataRead
    /\ "A" \in DOMAIN metadata
    /\ ~written["A"].damaged
    /\ metadata["A"] = CheckpointMetadata(Put(EmptyMap, "S", 10),
                                          Put(EmptyMap, 1, <<7, 8>>),
                                          Put(EmptyMap, 2, <<7, 8>>))

\* C30  When the dependency tree of source s is walked, a node that has no
\* persisted metadata, or whose commits map has no entry for s, is recorded
\* with seq 0 and is placed in the partition for seq 0.
C30_AbsentIsZero ==
    /\ MetadataRead =>
          \A s \in Sources(built) : \A n \in Range(Walk(s)) :
              (n \notin DOMAIN metadata \/ s \notin DOMAIN metadata[n].commits) =>
                  /\ 0 \in DOMAIN partitions(metadata, deps_trees, s)
                  /\ n \in Range(partitions(metadata, deps_trees, s)[0])
    /\ Analysed =>
          \A s \in Sources(built) : \A n \in Range(Walk(s)) :
              (n \notin DOMAIN metadata \/ s \notin DOMAIN metadata[n].commits) =>
                  AtZero(n, s)

\* One node of the tree of S has no metadata, another has metadata without a
\* commit of S, a third has a commit of S: the first two are in the
\* partition for seq 0.
C30_Witness ==
    /\ Analysed
    /\ \E s \in Sources(built) : \E n1, n2, n3 \in Range(Walk(s)) :
          /\ n1 \notin DOMAIN metadata
          /\ n2 \in DOMAIN metadata /\ s \notin DOMAIN metadata[n2].commits
          /\ n3 \in DOMAIN metadata /\ s \in DOMAIN metadata[n3].commits
          /\ consistency[s].kind = "PartiallyConsistent"
          /\ {n1, n2} \subseteq Range(consistency[s].partitions[0])
          /\ n3 \notin Range(consistency[s].partitions[0])

\* The analyzer has taken the environments as it found them.
EnvsTaken == ck_pc \in {"ready", "done", "panic"}

Tags == {SOURCE_ID_IDENTIFIER, OUTPUT_SCHEMA_IDENTIFIER, INPUT_SCHEMA_IDENTIFIER}

\* The record decodes: a commit with a seq of 8 bytes, a schema with a port
\* of 2 bytes and a value that deserializes.
RecordDecodes(key, value) ==
    /\ key[1] \in Tags
    /\ key[1] = SOURCE_ID_IDENTIFIER => Len(value) = 8
    /\ key[1] # SOURCE_ID_IDENTIFIER => (Len(key) = 3 /\ deserialize(value).ok)

\* The records of the env that do not decode, and the first of them in the
\* order of the keys.
BadKeys(env) == {key \in DOMAIN env.db : ~RecordDecodes(key, env.db[key])}

FirstBadKey(env) == Head(Cursor(BadKeys(env)))

InvalidRecord == ErrMeta(Res("InvalidRecord"))

\* C31 (as stated)  Reading one node's checkpoint fails with InvalidRecord
\* when any record's first key byte is not SOURCE_ID, OUTPUT_SCHEMA or
\* INPUT_SCHEMA, and also when the checkpoint database holds no record at
\* all; it fails with InvalidCheckpointState when the node's env does not
\* exist; in each failing case no partial metadata is returned.
C31_AnyUnknownTagInvalidRecord ==
    EnvsTaken =>
        \A n \in CkNodes :
            /\ HasUnknownTag(disk0[n]) => ReadOf(n) = InvalidRecord
            /\ (disk0[n].state = "open" /\ DOMAIN disk0[n].db = {}) => ReadOf(n) = InvalidRecord
            /\ disk0[n].state = "missing" =>
                   ReadOf(n) = ErrMeta(ResOf("InvalidCheckpointState", n))
            /\ ReadOf(n).outcome # "Ok" => "meta" \notin DOMAIN ReadOf(n)

\* C31 (amended)  Reading one node's checkpoint stops at the first record, in
\* the order of the keys, that does not decode: it fails with InvalidRecord
\* when that record's first key byte is not SOURCE_ID, OUTPUT_SCHEMA or
\* INPUT_SCHEMA, and also when the checkpoint database holds no record at
\* all; it fails with InvalidCheckpointState when the node's env does not
\* exist; in each failing case no partial metadata is returned for the node.
C31_FirstBadRecordDecides ==
    EnvsTaken =>
        \A n \in CkNodes :
            /\ (disk0[n].state = "open" /\ BadKeys(disk0[n]) # {}
                  /\ FirstBadKey(disk0[n])[1] \notin Tags) => ReadOf(n) = InvalidRecord
            /\ (disk0[n].state = "open" /\ BadKeys(disk0[n]) # {}
                  /\ FirstBadKey(disk0[n])[1] \in Tags) => ReadOf(n) # InvalidRecord
            /\ (disk0[n].state = "open" /\ DOMAIN disk0[n].db = {}) => ReadOf(n) = InvalidRecord
            /\ disk0[n].state = "missing" =>
                   ReadOf(n) = ErrMeta(ResOf("InvalidCheckpointState", n))
            /\ ReadOf(n).outcome # "Ok" =>
                   /\ "meta" \notin DOMAIN ReadOf(n)
                   /\ n \notin DOMAIN metadata

\* The analyzer found one env missing, one with an empty checkpoint database
\* and one whose only bad record has an unknown tag byte after a commit it
\* had already decoded.
C31_Witness ==
    /\ MetadataRead
    /\ \E n1, n2, n3 \in CkNodes :
          /\ disk0[n1].state = "missing"
          /\ disk0[n2].state = "open" /\ DOMAIN disk0[n2].db = {}
          /\ disk0[n3].state = "open"
          /\ Cardinality(DOMAIN disk0[n3].db) = 2
          /\ BadKeys(disk0[n3]) = {<<4>>}
          /\ ReadOf(n3) = InvalidRecord
          /\ {n1, n2, n3} \subseteq removed

\* What worker n handed to its forwarder in this step.
NewlyEmitted(n) == SubSeq(emitted'[n], Len(emitted[n]) + 1, Len(emitted'[n]))

\* In this step a Ready processor takes a data op from channel c.
ReceivesDataOp(c) ==
    /\ dag.nodes[dag.edges[c].to.node] = "Processor"
    /\ schema_initialized[dag.edges[c].to.node]
    /\ Len(recvd'[c]) = Len(recvd[c]) + 1
    /\ IsDataOp(Last(recvd'[c]))

\* C32  For every data op a Ready processor receives, it first sets the
\* forwarder's sequence number to the op's seq and only then calls
\* processor.process, passing as from_port the destination port of the edge
\* the message arrived on; so every op the processor forwards while handling
\* that message carries the seq of the message that triggered it.
C32_SeqSetBeforeProcess ==
    /\ [](\A n \in Nodes :
            dag.nodes[n] = "Processor" =>
                \A k \in 1..Len(outbox[n]) :
                    IsDataOp(outbox[n][k].msg) => outbox[n][k].msg.seq = curr_seq_no[n])
    /\ [][\A c \in Channels :
            ReceivesDataOp(c) =>
                LET n == dag.edges[c].to.node
                    m == Last(recvd'[c])
                IN  /\ curr_seq_no'[n] = m.seq
                    /\ Len(proc_log'[c]) <= Len(proc_log[c]) + 1
                    /\ Len(proc_log'[c]) = Len(proc_log[c]) + 1 =>
                           /\ Last(proc_log'[c])[1] = dag.edges[c].to.port
                           /\ Last(proc_log'[c])[2] = m.seq
                    /\ \A k \in 1..Len(NewlyEmitted(n)) :
                           /\ IsDataOp(NewlyEmitted(n)[k][2])
                           /\ NewlyEmitted(n)[k][2].seq = m.seq
                    /\ NewlyEmitted(n) # << >> => Len(proc_log'[c]) = Len(proc_log[c]) + 1]_vars

\* The fan-in processor was called with from_port 2 for an op that came over
\* the edge into its port 2, and forwarded an op with that op's seq.
C32_Witness ==
    /\ dag.name = "fanin"
    /\ proc_log[2] # << >>
    /\ proc_log[2][1][1] = 2
    /\ dag.edges[2].to.port = 2
    /\ \E k \in 1..Len(emitted["P"]) :
          /\ IsDataOp(emitted["P"][k][2])
          /\ emitted["P"][k][2].seq = proc_log[2][1][2]
    /\ curr_seq_no["P"] = proc_log[2][1][2]

\* Every declared input port of worker n has a schema.
AllInputSchemas(n) == \A k \in 1..Len(dag.input_ports[n]) : dag.input_ports[n][k] \in input_schemas[n]

\* In this step worker n takes a SchemaUpdate that leaves every declared
\* input port with a schema.
AbsorbsLastSchema(n) ==
    /\ \E k \in 1..Len(receivers_ls(n)) :
          /\ Len(recvd'[receivers_ls(n)[k]]) = Len(recvd[receivers_ls(n)[k]]) + 1
          /\ Last(recvd'[receivers_ls(n)[k]]).type = "SchemaUpdate"
    /\ \A k \in 1..Len(dag.input_ports[n]) : dag.input_ports[n][k] \in input_schemas'[n]

\* On every output port of n, a data op is forwarded only after a SchemaUpdate.
SchemaBeforeDataOnPorts(n) ==
    \A p \in Range(dag.output_ports[n]) :
        \A k \in 1..Len(PortStream(n, p)) :
            IsDataOp(PortStream(n, p)[k]) =>
                \E j \in 1..(k - 1) : PortStream(n, p)[j].type = "SchemaUpdate"

\* The step has sink n call update_schema.
SinkUpdatesSchema(n) ==
    \/ schema_initialized'[n] # schema_initialized[n]
    \/ (call_err'[n] # call_err[n] /\ call_err'[n] = Res("SchemaUpdateError"))

Pipes == {n \in Nodes : dag.nodes[n] = "Processor" /\ n \in DOMAIN receivers}

Drains == {n \in Nodes : dag.nodes[n] = "Sink" /\ n \in DOMAIN receivers}

\* C33 (as stated)  Ready transition: a processor forwards a SchemaUpdate on
\* each of its output ports, and a sink calls sink.update_schema, only when
\* the SchemaUpdate just absorbed leaves every declared input port with a
\* schema; before that point a processor forwards no message on any output
\* port, and a processor forwards SchemaUpdate on an output port before it
\* forwards any data op on that port.
C33_NothingForwardedBeforeReady ==
    \A n \in Pipes :
        /\ ~AllInputSchemas(n) => emitted[n] = << >>
        /\ SchemaBeforeDataOnPorts(n)

\* C33 (amended)  Ready transition: a processor forwards a SchemaUpdate on
\* its output ports, and a sink calls sink.update_schema, only when the
\* SchemaUpdate just absorbed leaves every declared input port with a schema;
\* before that point a processor forwards no SchemaUpdate and no data op on
\* any output port (the only message it forwards is the Terminate it passes
\* on), and a processor forwards SchemaUpdate on an output port before it
\* forwards any data op on that port.
C33_ReadyTransition ==
    /\ [](\A n \in Pipes :
            /\ ~AllInputSchemas(n) =>
                   \A k \in 1..Len(emitted[n]) : emitted[n][k][2] = Terminate
            /\ SchemaBeforeDataOnPorts(n))
    /\ [](\A n \in Pipes \cup Drains :
            (schema_initialized[n] \/ call_err[n] = Res("SchemaUpdateError")) =>
                AllInputSchemas(n))
    /\ [][\A n \in Pipes :
            (\E k \in 1..Len(NewlyEmitted(n)) : NewlyEmitted(n)[k][2].type = "SchemaUpdate") =>
                /\ AbsorbsLastSchema(n)
                /\ \A k \in 1..Len(NewlyEmitted(n)) :
                       /\ NewlyEmitted(n)[k][2].type = "SchemaUpdate"
                       /\ NewlyEmitted(n)[k][1] = dag.output_ports[n][k]
                /\ (Len(NewlyEmitted(n)) < Len(dag.output_ports[n])) =>
                       call_err'[n] = Res("SchemaUpdateError")]_vars
    /\ [][\A n \in Drains : SinkUpdatesSchema(n) => AbsorbsLastSchema(n)]_vars

\* The fan-in processor forwarded its SchemaUpdate once both input ports had
\* a schema, and a data op after it; the sink behind it is Ready.
C33_Witness ==
    /\ dag.name = "fanin"
    /\ input_schemas["P"] = {1, 2}
    /\ Len(emitted["P"]) >= 2
    /\ emitted["P"][1][2].type = "SchemaUpdate"
    /\ IsDataOp(emitted["P"][2][2])
    /\ \E n \in Drains : schema_initialized[n]

\* ------------------------------------------------------------------ C34
\* The handles of the invocations of get_source_dependency_tree under way,
\* outermost first.
Entered == [k \in 1..Len(stack) |-> stack[k].curr.handle]

\* C34: building the dependency trees terminates for every Dag built with
\* add_node and connect: get_source_dependency_tree is never entered for a node
\* while an invocation for the same node is under way (the invocation depends
\* on the node and the Dag only, so entering it again repeats without end).
C34_TreeBuildingTerminates ==
    \A i, j \in 1..Len(stack) : Entered[i] = Entered[j] => i = j

\* ------------------------------------------------------------------ C35
\* A Terminate has been taken out of channel c.
TerminateReceived(c) == \E k \in 1..Len(recvd[c]) : recvd[c][k] = Terminate

\* The workers with more than one incoming edge.
FanIns == {n \in DOMAIN receivers : Len(receivers_ls(n)) > 1}

\* C35: no op is lost at fan-in: a processor or sink with several incoming
\* edges that has returned Ok has received a Terminate on every incoming edge,
\* every message sent on such an edge up to its Terminate has been received,
\* and its channels have not been closed under a sender.
C35_NoOpLostAtFanIn ==
    \A n \in FanIns :
        (pc[n] = "done" /\ result[n] = Ok) =>
            \A i \in 1..Len(receivers_ls(n)) :
                /\ TerminateReceived(receivers_ls(n)[i])
                /\ chan[receivers_ls(n)[i]] = << >>
                /\ sent[receivers_ls(n)[i]] = recvd[receivers_ls(n)[i]]

\* ------------------------------------------------------------------ C36
\* map_to_op turns a data op into its seq and the Operation of the same kind
\* with the same records, and anything else into InvalidOperation.
MapsToSame(msg) ==
    IF IsDataOp(msg)
    THEN /\ map_to_op(msg).ok
         /\ map_to_op(msg).seq = msg.seq
         /\ map_to_op(msg).op.type = msg.type
         /\ msg.type \in {"Delete", "Update"} => map_to_op(msg).op.old = msg.old
         /\ msg.type \in {"Insert", "Update"} => map_to_op(msg).op.new = msg.new
    ELSE map_to_op(msg) = [ok |-> FALSE, err |-> Res("InvalidOperation")]

\* C36: no processor or sink worker ever returns InvalidOperation; map_to_op
\* gives every received Insert, Delete and Update its seq and the Operation of
\* the same kind with the same old/new, and InvalidOperation only to
\* SchemaUpdate and Terminate; and process is called only in a step that has
\* received a data op, with that op's seq and Operation.
C36_NoInvalidOperation ==
    /\ [](\A n \in Nodes : result[n].kind # "InvalidOperation")
    /\ [](\A c \in Channels : \A k \in 1..Len(recvd[c]) : MapsToSame(recvd[c][k]))
    /\ [][\A c \in Channels :
             proc_log'[c] # proc_log[c] =>
                 /\ Len(recvd'[c]) = Len(recvd[c]) + 1
                 /\ IsDataOp(Last(recvd'[c]))
                 /\ proc_log'[c] = Append(proc_log[c], Last(proc_log'[c]))
                 /\ Last(proc_log'[c])[2] = Last(recvd'[c]).seq
                 /\ Last(proc_log'[c])[3] = map_to_op(Last(recvd'[c])).op]_vars

\* A worker has been handed a Delete and an Update by map_to_op, on an edge
\* that has also carried a SchemaUpdate, and a Terminate has been received.
C36_Witness ==
    /\ \E c \in Channels :
          /\ \E k \in 1..Len(proc_log[c]) : proc_log[c][k][3].type = "Delete"
          /\ \E k \in 1..Len(proc_log[c]) : proc_log[c][k][3].type = "Update"
          /\ recvd[c][1].type = "SchemaUpdate"
    /\ \E c \in Channels : TerminateReceived(c)

\* ------------------------------------------------------------------ C37
\* How often node n stands in the lists parts[q], q in keys, taken together.
RECURSIVE Occurs(_, _, _)
Occurs(n, parts, keys) ==
    IF keys = {} THEN 0
    ELSE LET q == CHOOSE x \in keys : TRUE
         IN  Count(parts[q], {n}) + Occurs(n, parts, keys \ {q})

Occurrences(n, s) ==
    Occurs(n, consistency[s].partitions, DOMAIN consistency[s].partitions)

\* The number of paths (sequences of edges, the empty one included) that lead
\* from node from to node n.
RECURSIVE PathsTo(_, _)
RECURSIVE PathsVia(_, _)
PathsTo(from, n) ==
    (IF from = n THEN 1 ELSE 0)
        + PathsVia(SelectSeq(built.edges, LAMBDA e : e.from.node = from), n)

PathsVia(out, n) ==
    IF out = << >> THEN 0
    ELSE PathsTo(Head(out).to.node, n) + PathsVia(Tail(out), n)

Reachable(s) == {n \in CkNodes : PathsTo(s, n) > 0}

\* C37 (as stated)  In the partition lists of the Consistency of a source,
\* every node reachable from that source stands exactly once, also when it is
\* reachable over more than one path.
C37_ListedExactlyOnce ==
    Analysed =>
        \A s \in Sources(built) :
            consistency[s].kind = "PartiallyConsistent" =>
                \A n \in Reachable(s) : Occurrences(n, s) = 1

\* C37 (amended)  In the partition lists of the Consistency of a source, every
\* node stands once for each path that leads from the source to it, always in
\* the list of the seq it has recorded: a node reachable over one path once, a
\* node reachable over several paths or parallel edges once per path, a node
\* that is not reachable not at all.
C37_ListedOncePerPath ==
    Analysed =>
        \A s \in Sources(built) :
            consistency[s].kind = "PartiallyConsistent" =>
                \A n \in CkNodes :
                    /\ Occurrences(n, s) = PathsTo(s, n)
                    /\ n \in Reachable(s) =>
                          Count(consistency[s].partitions[RecordedSeq(n, s)], {n})
                              = PathsTo(s, n)

\* B, fed by S directly and through A, stands twice in the lists of S, and A
\* once.
C37_Witness ==
    /\ Analysed
    /\ built = CkShared
    /\ consistency["S"].kind = "PartiallyConsistent"
    /\ Occurrences("B", "S") = 2
    /\ Occurrences("A", "S") = 1

\* ------------------------------------------------------------------ C38
\* Node n has incoming edges and declares an input port without one.
Unfed(n) ==
    /\ n \in DOMAIN receivers
    /\ \E k \in 1..Len(dag.input_ports[n]) : dag.input_ports[n][k] \notin DOMAIN receivers[n]

\* In this step node n takes a data op from one of its receivers.
TakesDataOp(n) ==
    \E i \in 1..Len(receivers_ls(n)) :
        /\ Len(recvd'[receivers_ls(n)[i]]) = Len(recvd[receivers_ls(n)[i]]) + 1
        /\ IsDataOp(Last(recvd'[receivers_ls(n)[i]]))

\* C38: a processor or sink that declares an input port with no incoming edge
\* while another of its input ports has one is accepted by start; it never
\* reaches Ready and process is never called on it, and the step in which it
\* receives a data op, on any port, ends it with SchemaNotInitialized.
C38_UnfedPortNeverReady ==
    /\ [](\A n \in Nodes :
             Unfed(n) =>
                 /\ start_result # ResOf("MissingNodeInput", n)
                 /\ ~schema_initialized[n]
                 /\ \A i \in 1..Len(receivers_ls(n)) : proc_log[receivers_ls(n)[i]] = << >>)
    /\ [][\A n \in Nodes :
             (Unfed(n) /\ TakesDataOp(n)) =>
                 /\ pc'[n] = "done"
                 /\ result'[n] = Res("SchemaNotInitialized")]_vars

\* Both the processor and the sink with an unfed port have been started, have
\* absorbed the schema of a port that is fed, and have failed on a data op.
C38_Witness ==
    /\ dag.name = "unfed-port"
    /\ Unfed("P") /\ Unfed("K1")
    /\ input_schemas["P"] = {1} /\ input_schemas["K1"] = {1}
    /\ result["P"] = Res("SchemaNotInitialized")
    /\ result["K1"] = Res("SchemaNotInitialized")

\* ------------------------------------------------------------------ C39
\* The count field_map held for field f before the last call, 0 when it held
\* none.
CountBefore(f) == IF f \in DOMAIN update.before THEN update.before[f] ELSE u64(0)

\* C39: update_map keeps field_map a multiset of occurrence counts: every
\* stored count is at least 1, Null is never a key, and after a call that
\* decrements a field by more than the count it had (a field that was absent
\* included) there is no entry for that field.
C39_CountsNeverWrap ==
    /\ \A f \in DOMAIN field_map : f # Null /\ ~LexLess(field_map[f], u64(1))
    /\ (calls > 0 /\ update.decr) =>
           \A f \in Range(update.fields) \ {Null} :
               LexLess(CountBefore(f), update.val_delta) => f \notin DOMAIN field_map

====
